---- MODULE Spec2Model ----
(***************************************************************************)
(* Reference verification core of CheckIfExist: checkReference (CrossRef   *)
(* scoring), the Semantic Scholar and OpenAlex adapters, and the           *)
(* checkWithFallback orchestrator.                                         *)
(*                                                                         *)
(* A JavaScript string is a sequence of one-character strings.  An absent  *)
(* (undefined / null) value is the one-element sequence Undefined, which   *)
(* no string equals.  Scores that the code keeps as fractions (the overall *)
(* similarity and the confidence) are kept in quarter points: Pts(n) is    *)
(* the score n.                                                            *)
(***************************************************************************)
EXTENDS Integers, Sequences, FiniteSets, TLC

\* ------------------------------------------------------------ characters

Lowers == <<"a","b","c","d","e","f","g","h","i","j","k","l","m",
            "n","o","p","q","r","s","t","u","v","w","x","y","z">>
Uppers == <<"A","B","C","D","E","F","G","H","I","J","K","L","M",
            "N","O","P","Q","R","S","T","U","V","W","X","Y","Z">>
Digits == <<"0","1","2","3","4","5","6","7","8","9">>

LowerSet == {Lowers[i] : i \in DOMAIN Lowers}
UpperSet == {Uppers[i] : i \in DOMAIN Uppers}
DigitSet == {Digits[i] : i \in DOMAIN Digits}

\* \w of a JavaScript regular expression
IsWordChar(c) == c \in LowerSet \cup UpperSet \cup DigitSet \cup {"_"}
\* \s of a JavaScript regular expression (the white space the inputs use)
IsSpaceChar(c) == c \in {" ", "\t", "\n"}
IsLetter(c) == c \in LowerSet \cup UpperSet

ToLowerChar(c) ==
    IF c \in UpperSet THEN Lowers[CHOOSE i \in DOMAIN Uppers : Uppers[i] = c] ELSE c

Undefined == <<"undefined">>
\* An absent list of strings, which no list of strings (or of absent strings) equals
NoList == << <<"no list">> >>
\* JavaScript truthiness of an optional string: neither undefined nor ""
Truthy(s) == s # Undefined /\ s # <<>>
\* s || dflt
OrElse(s, dflt) == IF Truthy(s) THEN s ELSE dflt

Min2(x, y) == IF x <= y THEN x ELSE y
Max2(x, y) == IF x >= y THEN x ELSE y
Abs(x) == IF x < 0 THEN -x ELSE x

\* -------------------------------------------------------------- strings

ToLowerCase(s) == [i \in 1..Len(s) |-> ToLowerChar(s[i])]

\* s with every character that is neither \w nor \s removed
StripPunct(s) == SelectSeq(s, LAMBDA c : IsWordChar(c) \/ IsSpaceChar(c))

\* s.trim()
Trim(s) ==
    LET Kept(keep) ==
            IF keep = {} THEN <<>>
            ELSE SubSeq(s, CHOOSE i \in keep : \A k \in keep : i <= k,
                           CHOOSE i \in keep : \A k \in keep : i >= k)
    IN  Kept({i \in 1..Len(s) : ~IsSpaceChar(s[i])})

\* h.includes(n); every string includes the empty string
Includes(h, n) ==
    \E i \in 1..(Len(h) - Len(n) + 1) : SubSeq(h, i, i + Len(n) - 1) = n

\* Whether w occurs in s at position i
ExactAt(s, i, w) ==
    /\ i + Len(w) - 1 <= Len(s)
    /\ SubSeq(s, i, i + Len(w) - 1) = w

\* Whether w occurs in s at position i, ignoring case
MatchesAt(s, i, w) ==
    /\ i + Len(w) - 1 <= Len(s)
    /\ ToLowerCase(SubSeq(s, i, i + Len(w) - 1)) = ToLowerCase(w)

\* s.split(separator): Sep(s, i) is the length of the separator matched at
\* position i, 0 when none starts there
SplitWith(s, Sep(_, _)) ==
    LET n == Len(s)
        go[i \in 1..(n + 1), st \in 1..(n + 1)] ==
            IF i > n THEN << SubSeq(s, st, n) >>
            ELSE IF Sep(s, i) > 0
                 THEN << SubSeq(s, st, i - 1) >> \o go[i + Sep(s, i), i + Sep(s, i)]
                 ELSE go[i + 1, st]
    IN  go[1, 1]

\* Length of the run of characters satisfying Is that starts at i
RunLen(s, i, Is(_)) ==
    LET Until(stop) ==
            IF stop = {} THEN Len(s) - i + 1
            ELSE (CHOOSE k \in stop : \A m \in stop : k <= m) - i
    IN  Until({k \in i..Len(s) : ~Is(s[k])})

\* parts.join(sep)
RECURSIVE Join(_, _)
Join(parts, sep) ==
    IF Len(parts) = 0 THEN <<>>
    ELSE IF Len(parts) = 1 THEN parts[1]
    ELSE parts[1] \o sep \o Join(Tail(parts), sep)

\* ------------------------------------------------------------- numbers

\* The score n in quarter points
Pts(n) == 4 * n

\* Math.floor in the place of Math.round
RoundDown(n, d) == n \div d

\* Math.round of the non-negative fraction n / d
Round(n, d) == (2 * n + d) \div (2 * d)

\* n.toString() for n >= 0
RECURSIVE NumToString(_)
NumToString(n) ==
    IF n < 10 THEN << Digits[n + 1] >>
    ELSE NumToString(n \div 10) \o << Digits[(n % 10) + 1] >>

DigitValue(c) == (CHOOSE i \in DOMAIN Digits : Digits[i] = c) - 1

\* parseInt(s): the leading digits of s after white space; nan when there are none
ParseInt(s) ==
    LET Value(t, n) ==
            LET val[k \in 0..n] == IF k = 0 THEN 0 ELSE 10 * val[k - 1] + DigitValue(t[k])
            IN  [nan |-> n = 0, val |-> val[n]]
        Leading(t) == Value(t, RunLen(t, 1, LAMBDA c : c \in DigitSet))
    IN  Leading(Trim(s))

\* Math.abs(parseInt(a) - parseInt(b)); nan when either operand is
YearDiff(a, b) ==
    LET Diff(x, y) == [nan |-> x.nan \/ y.nan, val |-> Abs(x.val - y.val)]
    IN  Diff(ParseInt(a), ParseInt(b))

\* d === k and d <= k for a possibly-NaN d: every comparison with NaN is false
NumIs(d, k) == ~d.nan /\ d.val = k
NumLeq(d, k) == ~d.nan /\ d.val <= k

\* Levenshtein distance: one row of the matrix from the previous one.  acc
\* holds the cells of row i filled so far, prev the whole row i - 1.
RECURSIVE LevRow(_, _, _, _, _)
LevRow(a, bc, prev, j, acc) ==
    IF j > Len(a) THEN acc
    ELSE LET cell == IF bc = a[j] THEN prev[j]
                     ELSE Min2(prev[j] + 1, Min2(acc[j] + 1, prev[j + 1] + 1))
             Filled(next) ==
                 IF Len(next) = j + 1 THEN LevRow(a, bc, prev, j + 1, next) ELSE next
         IN  Filled(Append(acc, cell))

RECURSIVE LevRows(_, _, _, _)
LevRows(a, b, i, prev) ==
    IF i > Len(b) THEN prev[Len(a) + 1]
    ELSE LET Filled(row) == IF Len(row) = Len(a) + 1 THEN LevRows(a, b, i + 1, row) ELSE 0
         IN  Filled(LevRow(a, b[i], prev, 1, << i >>))

levenshteinDistance(a, b) == LevRows(a, b, 1, [j \in 1..(Len(a) + 1) |-> j - 1])

\* calculateSimilarity without its first line, the return of 0 for an empty
\* input
calculateSimilarityNoEmptyCheck(str1, str2) ==
    LET Similarity(distance, maxLength) ==
            IF maxLength = 0 THEN 0
            ELSE Max2(0, Round(100 * (maxLength - distance), maxLength))
        Cleaned(clean1, clean2) ==
            IF clean1 = clean2 THEN 100
            ELSE Similarity(levenshteinDistance(clean1, clean2),
                            Max2(Len(clean1), Len(clean2)))
    IN  Cleaned(StripPunct(ToLowerCase(str1)), StripPunct(ToLowerCase(str2)))

\* calculateSimilarity: 0..100.  Math.round is exact here: a tie (x.5) needs a
\* distance/length ratio with denominator 8, 40 or 200, and below length 40
\* only the binary-exact eighths occur.
calculateSimilarity(str1, str2) ==
    IF ~Truthy(str1) \/ ~Truthy(str2) THEN 0
    ELSE LET Similarity(distance, maxLength) ==
                 IF maxLength = 0 THEN 0
                 ELSE Max2(0, Round(100 * (maxLength - distance), maxLength))
             Cleaned(clean1, clean2) ==
                 IF clean1 = clean2 THEN 100
                 ELSE Similarity(levenshteinDistance(clean1, clean2),
                                 Max2(Len(clean1), Len(clean2)))
         IN  Cleaned(StripPunct(ToLowerCase(str1)), StripPunct(ToLowerCase(str2)))

\* normalize of checkReference
normalize(str) == Trim(StripPunct(ToLowerCase(str)))

\* ------------------------------------------------------ text literals
\* The string literals of the source.  The element "--" stands for the one
\* character U+2014 (em dash) and "grave" for the grave accent U+0060.

Txt == [
    Undefined |->
         <<"u", "n", "d", "e", "f", "i", "n", "e", "d">>,
    Nd |->
         <<"n", ".", "d", ".">>,
    Untitled |->
         <<"U", "n", "t", "i", "t", "l", "e", "d">>,
    Unknown |->
         <<"U", "n", "k", "n", "o", "w", "n">>,
    DoiOrg |->
         <<"h", "t", "t", "p", "s", ":", "/", "/", "d", "o", "i", ".",
         "o", "r", "g", "/">>,
    S2Paper |->
         <<"h", "t", "t", "p", "s", ":", "/", "/", "w", "w", "w", ".",
         "s", "e", "m", "a", "n", "t", "i", "c", "s", "c", "h", "o", "l", "a",
         "r", ".", "o", "r", "g", "/", "p", "a", "p", "e", "r", "/">>,
    CommaSpace |->
         <<",", " ">>,
    And |->
         <<"a", "n", "d">>,
    SpAndSp |->
         <<" ", "a", "n", "d", " ">>,
    Year |->
         <<"y", "e", "a", "r">>,
    Version |->
         <<"v", "e", "r", "s", "i", "o", "n">>,
    Preprint |->
         <<"p", "r", "e", "p", "r", "i", "n", "t">>,
    Quote |->
         <<"\"">>,
    Vs |->
         <<"\"", " ", "v", "s", " ", "\"">>,
    Found |->
         <<",", " ", "f", "o", "u", "n", "d", " ">>,
    ActualIs |->
         <<",", " ", "a", "c", "t", "u", "a", "l", " ", "i", "s", " ">>,
    IssueNoSimilarCrossRef |->
         <<"T", "i", "t", "l", "e", " ", "n", "o", "t", " ",
         "f", "o", "u", "n", "d", " ", "--", " ", "n", "o", " ", "s", "u", "f",
         "f", "i", "c", "i", "e", "n", "t", "l", "y", " ", "s", "i", "m", "i",
         "l", "a", "r", " ", "r", "e", "s", "u", "l", "t", " ", "i", "n", " ",
         "C", "r", "o", "s", "s", "R", "e", "f">>,
    IssueAllSources |->
         <<"T", "i", "t", "l", "e", " ", "n", "o", "t", " ", "f",
         "o", "u", "n", "d", " ", "i", "n", " ", "a", "n", "y", " ", "s", "o",
         "u", "r", "c", "e", " ", "(", "C", "r", "o", "s", "s", "R", "e", "f",
         ",", " ", "S", "e", "m", "a", "n", "t", "i", "c", " ", "S", "c", "h",
         "o", "l", "a", "r", ",", " ", "O", "p", "e", "n", "A", "l", "e", "x", ")">>,
    IssueExtraAuthors |->
         <<"E", "x", "t", "r", "a", "/", "F", "a", "k", "e", " ",
         "A", "u", "t", "h", "o", "r", "s", " ", "d", "e", "t", "e", "c", "t",
         "e", "d", ":", " ">>,
    IssueVersionDiff |->
         <<"V", "e", "r", "s", "i", "o", "n", " ", "d", "i", "f",
         "f", "e", "r", "e", "n", "c", "e", ":", " ", "\"">>,
    IssueVersionDiffEnd |->
         <<"\"", " ", "(", "p", "r", "e", "p", "r", "i", "n",
         "t", "/", "p", "u", "b", "l", "i", "s", "h", "e", "d", ")">>,
    IssueYearDiffers |->
         <<"Y", "e", "a", "r", " ", "d", "i", "f", "f", "e", "r",
         "s", " ", "b", "y", " ">>,
    IssueYearsExpected |->
         <<" ", "y", "e", "a", "r", "(", "s", ")", ":", " ",
         "e", "x", "p", "e", "c", "t", "e", "d", " ">>,
    IssueLikelyPreprint |->
         <<" ", "(", "l", "i", "k", "e", "l", "y", " ", "p",
         "r", "e", "p", "r", "i", "n", "t", "/", "p", "u", "b", "l", "i", "s",
         "h", "e", "d", " ", "v", "e", "r", "s", "i", "o", "n", ")">>,
    IssueYearDiffers1 |->
         <<"Y", "e", "a", "r", " ", "d", "i", "f", "f", "e", "r",
         "s", " ", "b", "y", " ", "1", ":", " ", "e", "x", "p", "e", "c", "t",
         "e", "d", " ">>,
    IssuePossibleVersion |->
         <<" ", "(", "p", "o", "s", "s", "i", "b", "l", "e",
         " ", "v", "e", "r", "s", "i", "o", "n", " ", "d", "i", "f", "f", "e",
         "r", "e", "n", "c", "e", ")">>,
    IssueYearMismatch |->
         <<"Y", "e", "a", "r", " ", "M", "i", "s", "m", "a", "t",
         "c", "h", ":", " ", "e", "x", "p", "e", "c", "t", "e", "d", " ">>,
    IssueAuthorNone |->
         <<"A", "u", "t", "h", "o", "r", " ", "M", "i", "s", "m",
         "a", "t", "c", "h", ":", " ", "n", "o", "n", "e", " ", "o", "f", " ",
         "t", "h", "e", " ", "r", "e", "a", "l", " ", "a", "u", "t", "h", "o",
         "r", "s", " ", "f", "o", "u", "n", "d">>,
    IssuePossibleFake |->
         <<"P", "o", "s", "s", "i", "b", "l", "e", " ", "E", "x",
         "t", "r", "a", "/", "F", "a", "k", "e", " ", "A", "u", "t", "h", "o",
         "r", "s", ":", " ">>,
    IssuePreprintVenue |->
         <<"N", "o", "t", "e", ":", " ", "C", "r", "o", "s",
         "s", "R", "e", "f", " ", "r", "e", "t", "u", "r", "n", "e", "d", " ",
         "p", "r", "e", "p", "r", "i", "n", "t", " ", "v", "e", "n", "u", "e",
         " ", "\"">>,
    IssueJournalActual |->
         <<"J", "o", "u", "r", "n", "a", "l", " ", "M", "i",
         "s", "m", "a", "t", "c", "h", ":", " ", "a", "c", "t", "u", "a", "l",
         " ", "i", "s", " ", "\"">>,
    IssueNoteYear |->
         <<"N", "o", "t", "e", ":", " ", "y", "e", "a", "r", " ">>,
    IssueNoteYearVs |->
         <<" ", "v", "s", " ">>,
    IssueNoteYearEnd |->
         <<" ", "(", "p", "r", "e", "p", "r", "i", "n", "t", "/",
         "p", "u", "b", "l", "i", "s", "h", "e", "d", " ", "v", "e", "r", "s",
         "i", "o", "n", " ", "d", "i", "f", "f", "e", "r", "e", "n", "c", "e", ")">>,
    IssueYouWrote1 |->
         <<"Y", "e", "a", "r", " ", "d", "i", "f", "f", "e", "r",
         "s", " ", "b", "y", " ", "1", ":", " ", "y", "o", "u", " ", "w", "r",
         "o", "t", "e", " ">>,
    IssueYouWroteMismatch |->
         <<"Y", "e", "a", "r", " ", "M", "i", "s", "m", "a",
         "t", "c", "h", ":", " ", "y", "o", "u", " ", "w", "r", "o", "t", "e", " ">>,
    IssueTitleMismatch |->
         <<"T", "i", "t", "l", "e", " ", "m", "i", "s", "m",
         "a", "t", "c", "h">>,
    IssueAuthorsMismatch |->
         <<"A", "u", "t", "h", "o", "r", "s", " ", "m", "i",
         "s", "m", "a", "t", "c", "h">>,
    IssueJournalMismatch |->
         <<"J", "o", "u", "r", "n", "a", "l", " ", "m", "i",
         "s", "m", "a", "t", "c", "h", ":", " ", "\"">>,
    IssueJournalDiffers |->
         <<"J", "o", "u", "r", "n", "a", "l", " ", "d", "i",
         "f", "f", "e", "r", "s", ":", " ", "\"">>,
    BibHead |->
         <<"@", "a", "r", "t", "i", "c", "l", "e", "{">>,
    BibTitle |->
         <<",", "\n", " ", " ", "t", "i", "t", "l", "e", "=", "{">>,
    BibAuthor |->
         <<"}", ",", "\n", " ", " ", "a", "u", "t", "h", "o", "r", "=",
         "{">>,
    BibYear |->
         <<"}", ",", "\n", " ", " ", "y", "e", "a", "r", "=", "{">>,
    BibJournal |->
         <<",", "\n", " ", " ", "j", "o", "u", "r", "n", "a", "l", "=",
         "{">>,
    BibDoi |->
         <<",", "\n", " ", " ", "d", "o", "i", "=", "{">>,
    BibEnd |->
         <<"\n", "}">> ]

PREPRINT_VENUES == <<
    <<"a", "r", "x", "i", "v">>,
    <<"b", "i", "o", "r", "x", "i", "v">>,
    <<"m", "e", "d", "r", "x", "i", "v">>,
    <<"c", "h", "e", "m", "r", "x", "i", "v">>,
    <<"s", "s", "r", "n">>,
    <<"p", "r", "e", "p", "r", "i", "n", "t", "s">>,
    <<"r", "e", "s", "e", "a", "r", "c", "h", " ", "s", "q", "u", "a", "r", "e">>,
    <<"o", "s", "f", " ", "p", "r", "e", "p", "r", "i", "n", "t", "s">>,
    <<"t", "e", "c", "h", "r", "x", "i", "v">>,
    <<"e", "a", "r", "t", "h", "a", "r", "x", "i", "v">>,
    <<"e", "n", "g", "r", "x", "i", "v">>,
    <<"s", "o", "c", "a", "r", "x", "i", "v">>,
    <<"p", "s", "y", "a", "r", "x", "i", "v">>,
    <<"e", "d", "a", "r", "x", "i", "v">>,
    <<"h", "a", "l">>,
    <<"r", "e", "p", "e", "c">>,
    <<"n", "b", "e", "r", " ", "w", "o", "r", "k", "i", "n", "g", " ", "p", "a", "p", "e", "r">>,
    <<"w", "o", "r", "k", "i", "n", "g", " ", "p", "a", "p", "e", "r">> >>

stopWords == <<
    <<"v", "o", "l">>,
    <<"i", "s", "s", "u", "e">>,
    <<"p", "p">>,
    <<"d", "o", "i">>,
    <<"h", "t", "t", "p">>,
    <<"h", "t", "t", "p", "s">>,
    <<"o", "r", "g">>,
    <<"c", "o", "m">>,
    <<"w", "w", "w">> >>

\* ------------------------------------------------- checkReference helpers

\* an optional string inside a template literal
Template(x) == IF x = Undefined THEN Txt.Undefined ELSE x
\* how Array.prototype.join renders an optional string
JoinItem(x) == IF x = Undefined THEN <<>> ELSE x
\* the character at position i, "" past the end
At(s, i) == IF i >= 1 /\ i <= Len(s) THEN s[i] ELSE ""

isPreprint(venue) ==
    /\ Truthy(venue)
    /\ \E k \in DOMAIN PREPRINT_VENUES : Includes(ToLowerCase(venue), PREPRINT_VENUES[k])

\* One match of /\{?\\A\{?([class])\}?\}?/ at position i, where A is the accent
\* character acc (optional when opt): its length (0 when there is no match) and
\* the captured letter.
AccentMatch(s, i, acc, opt, class) ==
    LET Skip(p, c) == IF At(s, p) = c THEN p + 1 ELSE p
        Letter(p1, p2, p4) ==
            [len |-> IF /\ At(s, p1) = "\\"
                        /\ (opt \/ At(s, p2) = acc)
                        /\ At(s, p4) \in class
                     THEN Skip(Skip(p4 + 1, "}"), "}") - i ELSE 0,
             ch |-> At(s, p4)]
        Accent(p1, p2) == Letter(p1, p2, Skip(Skip(p2, acc), "{"))
        Backslash(p1) == Accent(p1, p1 + 1)
    IN  Backslash(Skip(i, "{"))

\* s with every match of one accent pattern replaced by its captured letter
RECURSIVE AccentReplace(_, _, _, _, _, _)
AccentReplace(s, acc, opt, class, i, out) ==
    IF i > Len(s) THEN out
    ELSE LET Replaced(m) ==
                 IF m.len > 0
                 THEN AccentReplace(s, acc, opt, class, i + m.len, Append(out, m.ch))
                 ELSE AccentReplace(s, acc, opt, class, i + 1, Append(out, s[i]))
         IN  Replaced(AccentMatch(s, i, acc, opt, class))

Vowels == {"a", "e", "i", "o", "u", "A", "E", "I", "O", "U"}

decodeLatex(text) ==
    LET r1 == AccentReplace(text, "'", TRUE, Vowels, 1, <<>>)
        r2 == AccentReplace(r1, "grave", FALSE, Vowels, 1, <<>>)
        r3 == AccentReplace(r2, "^", FALSE, Vowels, 1, <<>>)
        r4 == AccentReplace(r3, "\"", FALSE, Vowels, 1, <<>>)
        r5 == AccentReplace(r4, "v", FALSE, LowerSet \cup UpperSet, 1, <<>>)
        r6 == AccentReplace(r5, "~", FALSE, {"n", "N"}, 1, <<>>)
        r7 == AccentReplace(r6, "c", FALSE, {"c", "C"}, 1, <<>>)
    IN  Trim(SelectSeq(r7, LAMBDA c : c \notin {"{", "}"}))

firstLetterMatches(name1, name2) ==
    LET Cleaned(clean1, clean2) ==
            /\ clean1 # <<>>
            /\ clean2 # <<>>
            /\ ToLowerChar(clean1[1]) = ToLowerChar(clean2[1])
    IN  Cleaned(SelectSeq(decodeLatex(name1), IsLetter),
                SelectSeq(decodeLatex(name2), IsLetter))

\* A CrossRef work: title, author (a list of [family, given]; absent is the
\* empty list, which item.author || [] makes of it), year (<<>> or <<n>>, the
\* first date part of `published`), journal (container-title), DOI, URL, score.
ItemTitle(item) == OrElse(item.title, <<>>)
ItemYear(item) == IF item.year = <<>> THEN <<>> ELSE NumToString(item.year[1])
ItemJournal(item) == OrElse(item.journal, <<>>)

formatAPA(item) ==
    LET authors == Join([k \in 1..Len(item.author) |->
                            Template(item.author[k].family) \o Txt.CommaSpace \o
                            (IF Truthy(item.author[k].given)
                             THEN << item.author[k].given[1], "." >> ELSE <<>>)],
                        Txt.CommaSpace)
        year == IF item.year = <<>> THEN Txt.Nd ELSE NumToString(item.year[1])
        title == OrElse(item.title, Txt.Untitled)
        journal == ItemJournal(item)
        doi == IF Truthy(item.DOI) THEN Txt.DoiOrg \o item.DOI ELSE OrElse(item.URL, <<>>)
    IN  authors \o <<" ", "(">> \o year \o <<")", ".", " ">> \o title \o <<".">>
        \o (IF journal # <<>> THEN <<" ">> \o journal \o <<".">> ELSE <<>>)
        \o (IF doi # <<>> THEN <<" ">> \o doi ELSE <<>>)

\* title.split(sp)[0], sp one space
FirstWord(title) == SubSeq(title, 1, RunLen(title, 1, LAMBDA c : c # " "))

\* s with every character that is no letter or digit removed
AlphaNum(s) == SelectSeq(s, LAMBDA c : c \in LowerSet \cup UpperSet \cup DigitSet)

BibRecord(id, title, authors, year, journal, doi) ==
    Txt.BibHead \o id \o Txt.BibTitle \o title \o Txt.BibAuthor \o authors \o Txt.BibYear \o year
    \o <<"}">>
    \o (IF journal # <<>> THEN Txt.BibJournal \o journal \o <<"}">> ELSE <<>>)
    \o (IF doi # <<>> THEN Txt.BibDoi \o doi \o <<"}">> ELSE <<>>)
    \o Txt.BibEnd

generateBibTeX(item) ==
    LET authors == Join([k \in 1..Len(item.author) |->
                            Template(item.author[k].family) \o
                            (IF Truthy(item.author[k].given)
                             THEN Txt.CommaSpace \o item.author[k].given ELSE <<>>)],
                        Txt.SpAndSp)
        year == IF item.year = <<>> THEN Txt.Nd ELSE NumToString(item.year[1])
        title == OrElse(item.title, Txt.Untitled)
        firstAuthor == IF Len(item.author) = 0 THEN Txt.Unknown
                       ELSE OrElse(item.author[1].family, Txt.Unknown)
        id == firstAuthor \o year \o AlphaNum(FirstWord(title))
    IN  BibRecord(id, title, authors, year, ItemJournal(item), OrElse(item.DOI, <<>>))

\* ------------------------------------------------------- checkReference

MIN_TITLE_SIMILARITY == 55

\* A faulty variant of TitleTooDifferent: the comparison is reversed
TitleTooDifferentReversed(titleSim) == titleSim > MIN_TITLE_SIMILARITY

\* The strict title threshold: the best match is too different to be reported
TitleTooDifferent(titleSim) == titleSim < MIN_TITLE_SIMILARITY

\* A faulty variant of NotFoundResult: the title score is copied to the journal score
NotFoundResultCopied(titleScore, issues) ==
    [exists |-> FALSE, title |-> Undefined, authors |-> Undefined, year |-> Undefined,
     journal |-> Undefined, url |-> Undefined, doi |-> Undefined, score |-> <<>>,
     apa |-> Undefined, bibtex |-> Undefined,
     correctedApa |-> Undefined, correctedBibtex |-> Undefined,
     matchConfidence |-> 0, titleMatchScore |-> titleScore,
     authorMatchScore |-> 0, journalMatchScore |-> titleScore,
     issues |-> issues, source |-> "NotFound", fallbackSource |-> "none"]

\* A faulty variant of NotFoundResult: the issue is left out
NotFoundResultSilent(titleScore, issues) ==
    [exists |-> FALSE, title |-> Undefined, authors |-> Undefined, year |-> Undefined,
     journal |-> Undefined, url |-> Undefined, doi |-> Undefined, score |-> <<>>,
     apa |-> Undefined, bibtex |-> Undefined,
     correctedApa |-> Undefined, correctedBibtex |-> Undefined,
     matchConfidence |-> 0, titleMatchScore |-> titleScore,
     authorMatchScore |-> 0, journalMatchScore |-> 0,
     issues |-> <<>>, source |-> "NotFound", fallbackSource |-> "none"]

\* A CheckResult; matchConfidence is in quarter points
NotFoundResult(titleScore, issues) ==
    [exists |-> FALSE, title |-> Undefined, authors |-> Undefined, year |-> Undefined,
     journal |-> Undefined, url |-> Undefined, doi |-> Undefined, score |-> <<>>,
     apa |-> Undefined, bibtex |-> Undefined,
     correctedApa |-> Undefined, correctedBibtex |-> Undefined,
     matchConfidence |-> 0, titleMatchScore |-> titleScore,
     authorMatchScore |-> 0, journalMatchScore |-> 0,
     issues |-> issues, source |-> "NotFound", fallbackSource |-> "none"]

\* query.match(/\b(19|20)\d{2}\b/g) || []
YearsInQuery(query) ==
    LET isYearAt(i) ==
            /\ i + 3 <= Len(query)
            /\ << query[i], query[i + 1] >> \in { <<"1", "9">>, <<"2", "0">> }
            /\ query[i + 2] \in DigitSet
            /\ query[i + 3] \in DigitSet
            /\ ~IsWordChar(At(query, i - 1))
            /\ ~IsWordChar(At(query, i + 4))
        Matches(at) == [k \in 1..Len(at) |-> SubSeq(query, at[k], at[k] + 3)]
    IN  Matches(SelectSeq([i \in 1..Len(query) |-> i], isYearAt))

InSeq(x, seq) == \E k \in DOMAIN seq : seq[k] = x

\* The title score of a CrossRef title, in selection and after it
TitleSimOf(query, expected, title) ==
    IF Truthy(expected.title) THEN calculateSimilarity(expected.title, title)
    ELSE IF Includes(normalize(query), normalize(title)) THEN 100
    ELSE calculateSimilarity(query, title)

combinedScore(query, expected, item) ==
    LET titleScore == TitleSimOf(query, expected, ItemTitle(item))
        yearBonus(iYear) ==
            IF Truthy(expected.year) /\ iYear # <<>>
            THEN IF expected.year = iYear THEN 40
                 ELSE IF NumIs(YearDiff(expected.year, iYear), 1) THEN 10 ELSE 0
            ELSE IF ~Truthy(expected.title)
                 THEN IF iYear # <<>> /\ InSeq(iYear, YearsInQuery(query)) THEN 30 ELSE 0
                 ELSE 0
        journalBonus(iJournal) ==
            IF Truthy(expected.journal) /\ iJournal # <<>>
            THEN Round(calculateSimilarity(expected.journal, iJournal), 5)
            ELSE 0
    IN  titleScore * 3 + yearBonus(ItemYear(item)) + journalBonus(ItemJournal(item))

\* The loop over items with >= in the place of >: the last item with the
\* highest combined score
RECURSIVE SelectBestLatest(_, _, _, _, _, _)
SelectBestLatest(query, expected, items, k, bestItem, bestCombinedScore) ==
    IF k > Len(items) THEN bestItem
    ELSE LET Compared(c) ==
                 IF c >= bestCombinedScore
                 THEN SelectBestLatest(query, expected, items, k + 1, items[k], c)
                 ELSE SelectBestLatest(query, expected, items, k + 1, bestItem,
                                       bestCombinedScore)
         IN  Compared(combinedScore(query, expected, items[k]))

\* The loop over items: the first item with the highest combined score
RECURSIVE SelectBest(_, _, _, _, _, _)
SelectBest(query, expected, items, k, bestItem, bestCombinedScore) ==
    IF k > Len(items) THEN bestItem
    ELSE LET Compared(c) ==
                 IF c > bestCombinedScore
                 THEN SelectBest(query, expected, items, k + 1, items[k], c)
                 ELSE SelectBest(query, expected, items, k + 1, bestItem, bestCombinedScore)
         IN  Compared(combinedScore(query, expected, items[k]))

realAuthorFamilies(item) ==
    SelectSeq([k \in 1..Len(item.author) |-> normalize(OrElse(item.author[k].family, <<>>))],
              LAMBDA name : Len(name) > 2)

realAuthorGivens(item) ==
    SelectSeq([k \in 1..Len(item.author) |-> Trim(OrElse(item.author[k].given, <<>>))],
              LAMBDA name : Len(name) > 0)

\* One of the list of names is real: a family name containing or contained in
\* the normalized name, or a given name with the same first letter
IsRealAuthor(item, raw, norm) ==
    LET Among(families, givens) ==
            \/ \E k \in DOMAIN families :
                  \/ Includes(families[k], norm)
                  \/ Includes(norm, families[k])
            \/ \E k \in DOMAIN givens : firstLetterMatches(raw, givens[k])
    IN  Among(realAuthorFamilies(item), realAuthorGivens(item))

\* The separator /[,&]|\sand\s/i at position i
SepAuthorList(s, i) ==
    IF s[i] \in {",", "&"} THEN 1
    ELSE IF IsSpaceChar(s[i]) /\ MatchesAt(s, i + 1, Txt.And) /\ IsSpaceChar(At(s, i + 4))
         THEN 5 ELSE 0

\* Strict author check of batch mode with the penalty of quick check, 10 for
\* each extra author
StructuredAuthorsQuickPenalty(expected, item) ==
    IF ~Truthy(expected.authors) THEN [sim |-> 100, issues |-> <<>>]
    ELSE
    LET resultAuthors == Join([k \in 1..Len(item.author) |-> JoinItem(item.author[k].family)],
                              Txt.CommaSpace)
        Found(families, authorsFound) ==
            IF Len(authorsFound) > 0
            THEN Min2(100, Round(Len(authorsFound) * 100, Len(families)))
            ELSE calculateSimilarity(expected.authors, resultAuthors)
        Base(families, normExpected) ==
            Found(families, SelectSeq(families, LAMBDA a : Includes(normExpected, a)))
        Listed(parts) ==
            SelectSeq([k \in 1..Len(parts) |-> Trim(parts[k])], LAMBDA e : Len(e) > 2)
        Extra(expectedList) ==
            SelectSeq(expectedList, LAMBDA e : ~IsRealAuthor(item, e, normalize(e)))
        Penalized(base, extraAuthors) ==
            IF Len(extraAuthors) > 0
            THEN [sim |-> base - 10 * Len(extraAuthors),
                  issues |-> << Txt.IssueExtraAuthors \o Join(extraAuthors, Txt.CommaSpace) >>]
            ELSE [sim |-> base, issues |-> <<>>]
    IN  Penalized(Base(realAuthorFamilies(item), normalize(expected.authors)),
                  Extra(Listed(SplitWith(decodeLatex(expected.authors), SepAuthorList))))

\* Strict author check of batch mode: the author score and its issues
StructuredAuthors(expected, item) ==
    IF ~Truthy(expected.authors) THEN [sim |-> 100, issues |-> <<>>]
    ELSE
    LET resultAuthors == Join([k \in 1..Len(item.author) |-> JoinItem(item.author[k].family)],
                              Txt.CommaSpace)
        Found(families, authorsFound) ==
            IF Len(authorsFound) > 0
            THEN Min2(100, Round(Len(authorsFound) * 100, Len(families)))
            ELSE calculateSimilarity(expected.authors, resultAuthors)
        Base(families, normExpected) ==
            Found(families, SelectSeq(families, LAMBDA a : Includes(normExpected, a)))
        Listed(parts) ==
            SelectSeq([k \in 1..Len(parts) |-> Trim(parts[k])], LAMBDA e : Len(e) > 2)
        Extra(expectedList) ==
            SelectSeq(expectedList, LAMBDA e : ~IsRealAuthor(item, e, normalize(e)))
        Penalized(base, extraAuthors) ==
            IF Len(extraAuthors) > 0
            THEN [sim |-> base - 20 * Len(extraAuthors),
                  issues |-> << Txt.IssueExtraAuthors \o Join(extraAuthors, Txt.CommaSpace) >>]
            ELSE [sim |-> base, issues |-> <<>>]
    IN  Penalized(Base(realAuthorFamilies(item), normalize(expected.authors)),
                  Extra(Listed(SplitWith(decodeLatex(expected.authors), SepAuthorList))))

\* Journal matching of batch mode without the preprint leniency
StructuredJournalStrict(expected, resultJournal, titleSim) ==
    IF ~Truthy(expected.journal) THEN [sim |-> 100, issues |-> <<>>]
    ELSE [sim |-> calculateSimilarity(expected.journal, resultJournal), issues |-> <<>>]

\* Journal matching of batch mode
StructuredJournal(expected, resultJournal, titleSim) ==
    IF ~Truthy(expected.journal) THEN [sim |-> 100, issues |-> <<>>]
    ELSE
    LET Compared(journalSim) ==
            IF /\ journalSim < 50
               /\ isPreprint(expected.journal) # isPreprint(resultJournal)
               /\ titleSim > 70
            THEN [sim |-> 70,
                  issues |-> << Txt.IssueVersionDiff \o expected.journal \o Txt.Vs \o resultJournal
                                \o Txt.IssueVersionDiffEnd >>]
            ELSE [sim |-> journalSim, issues |-> <<>>]
    IN  Compared(calculateSimilarity(expected.journal, resultJournal))

\* Year matching of batch mode
StructuredYear(expected, resultYear, resultJournal, titleSim) ==
    IF ~(Truthy(expected.year) /\ resultYear # <<>>) \/ expected.year = resultYear
    THEN [sim |-> 100, issues |-> <<>>]
    ELSE
    LET eitherIsPreprint == isPreprint(OrElse(expected.journal, <<>>)) \/ isPreprint(resultJournal)
        Compared(yearDiff) ==
            IF NumLeq(yearDiff, 2) /\ eitherIsPreprint
            THEN [sim |-> 85,
                  issues |-> << Txt.IssueYearDiffers \o NumToString(yearDiff.val)
                                \o Txt.IssueYearsExpected \o expected.year \o Txt.Found
                                \o resultYear \o Txt.IssueLikelyPreprint >>]
            ELSE IF NumIs(yearDiff, 1) /\ titleSim > 80
            THEN [sim |-> 75,
                  issues |-> << Txt.IssueYearDiffers1 \o expected.year \o Txt.Found \o resultYear
                                \o Txt.IssuePossibleVersion >>]
            ELSE [sim |-> 0,
                  issues |-> << Txt.IssueYearMismatch \o expected.year \o Txt.Found
                                \o resultYear >>]
    IN  Compared(YearDiff(expected.year, resultYear))

\* The separator /[\s,.:;()]+/ at position i
SepToken(s, i) ==
    RunLen(s, i, LAMBDA c : IsSpaceChar(c) \/ c \in {",", ".", ":", ";", "(", ")"})

\* [...new Set(list)]: the first occurrence of every element, in order
RECURSIVE Unique(_, _)
Unique(list, out) ==
    IF list = <<>> THEN out
    ELSE Unique(Tail(list), IF InSeq(Head(list), out) THEN out ELSE Append(out, Head(list)))

\* Fake-author detection of quick check: the capitalized tokens of the query
\* that match no part of the result
potentialFakeAuthors(query, item) ==
    LET nResultTitle == normalize(ItemTitle(item))
        resultJournal == ItemJournal(item)
        resultYear == ItemYear(item)
        suspectAs(token, nToken) ==
            /\ Len(nToken) >= 3
            /\ At(token, 1) \in UpperSet
            /\ ~InSeq(nToken, stopWords)
            /\ ~Includes(nResultTitle, nToken)
            /\ ~(resultJournal # <<>> /\ Includes(normalize(resultJournal), nToken))
            /\ ~(resultYear # <<>> /\ Includes(resultYear, token))
            /\ ~IsRealAuthor(item, token, nToken)
        suspect(token) == suspectAs(token, normalize(token))
    IN  SelectSeq(SplitWith(query, SepToken), suspect)

\* Authors of quick check that reports the fake tokens and keeps the score
FreeTextAuthorsUnpenalized(query, item, titleSim) ==
    LET Penalized(found, uniqueFakes) ==
            IF Len(uniqueFakes) > 0 /\ Len(uniqueFakes) <= 5
            THEN [sim |-> found.sim,
                  issues |-> found.issues
                             \o << Txt.IssuePossibleFake \o Join(uniqueFakes, Txt.CommaSpace) >>]
            ELSE found
        Found(families, authorsFound) ==
            IF Len(authorsFound) = Len(families) THEN [sim |-> 100, issues |-> <<>>]
            ELSE IF Len(authorsFound) > 0
            THEN [sim |-> Round(Len(authorsFound) * 100, Len(families)), issues |-> <<>>]
            ELSE [sim |-> 0, issues |-> IF titleSim > 80 THEN << Txt.IssueAuthorNone >> ELSE <<>>]
        Base(families, nQuery) ==
            Found(families, SelectSeq(families, LAMBDA a : Includes(nQuery, a)))
    IN  Penalized(Base(realAuthorFamilies(item), normalize(query)),
                  Unique(potentialFakeAuthors(query, item), <<>>))

\* Authors of quick check: the families found in the query, then the fake tokens
FreeTextAuthors(query, item, titleSim) ==
    LET Penalized(found, uniqueFakes) ==
            IF Len(uniqueFakes) > 0 /\ Len(uniqueFakes) <= 5
            THEN [sim |-> found.sim - 10 * Len(uniqueFakes),
                  issues |-> found.issues
                             \o << Txt.IssuePossibleFake \o Join(uniqueFakes, Txt.CommaSpace) >>]
            ELSE found
        Found(families, authorsFound) ==
            IF Len(authorsFound) = Len(families) THEN [sim |-> 100, issues |-> <<>>]
            ELSE IF Len(authorsFound) > 0
            THEN [sim |-> Round(Len(authorsFound) * 100, Len(families)), issues |-> <<>>]
            ELSE [sim |-> 0, issues |-> IF titleSim > 80 THEN << Txt.IssueAuthorNone >> ELSE <<>>]
        Base(families, nQuery) ==
            Found(families, SelectSeq(families, LAMBDA a : Includes(nQuery, a)))
    IN  Penalized(Base(realAuthorFamilies(item), normalize(query)),
                  Unique(potentialFakeAuthors(query, item), <<>>))

\* Journal of quick check that counts only the words longer than "journal"
FreeTextJournalLongWords(query, resultJournal, titleSim) ==
    IF ~(resultJournal # <<>> /\ Len(resultJournal) > 3) THEN [sim |-> 50, issues |-> <<>>]
    ELSE
    LET journalWords == SelectSeq(SplitWith(normalize(resultJournal),
                                            LAMBDA t, i : RunLen(t, i, IsSpaceChar)),
                                  LAMBDA w : Len(w) > 7)
    IN  IF \E w \in {journalWords[k] : k \in DOMAIN journalWords} :
               Includes(normalize(query), w)
        THEN [sim |-> 100, issues |-> <<>>]
        ELSE IF isPreprint(resultJournal)
        THEN [sim |-> 60,
              issues |-> IF titleSim > 70
                         THEN << Txt.IssuePreprintVenue \o resultJournal \o Txt.Quote >> ELSE <<>>]
        ELSE [sim |-> 0,
              issues |-> IF titleSim > 70
                         THEN << Txt.IssueJournalActual \o resultJournal \o Txt.Quote >> ELSE <<>>]

\* Journal of quick check
FreeTextJournal(query, resultJournal, titleSim) ==
    IF ~(resultJournal # <<>> /\ Len(resultJournal) > 3) THEN [sim |-> 50, issues |-> <<>>]
    ELSE
    LET journalWords == SelectSeq(SplitWith(normalize(resultJournal),
                                            LAMBDA t, i : RunLen(t, i, IsSpaceChar)),
                                  LAMBDA w : Len(w) >= 4)
    IN  IF \E w \in {journalWords[k] : k \in DOMAIN journalWords} :
               Includes(normalize(query), w)
        THEN [sim |-> 100, issues |-> <<>>]
        ELSE IF isPreprint(resultJournal)
        THEN [sim |-> 60,
              issues |-> IF titleSim > 70
                         THEN << Txt.IssuePreprintVenue \o resultJournal \o Txt.Quote >> ELSE <<>>]
        ELSE [sim |-> 0,
              issues |-> IF titleSim > 70
                         THEN << Txt.IssueJournalActual \o resultJournal \o Txt.Quote >> ELSE <<>>]

\* Year of quick check: the issue, and what is subtracted from overallSim at
\* that point (before the overall score is computed)
FreeTextYear(query, resultYear, resultJournal, titleSim) ==
    LET Compared(queryYear, yearDiff) ==
            IF NumLeq(yearDiff, 2) /\ isPreprint(resultJournal)
            THEN [penalty |-> 5,
                  issues |-> << Txt.IssueNoteYear \o queryYear \o Txt.IssueNoteYearVs
                                \o resultYear \o Txt.IssueNoteYearEnd >>]
            ELSE IF NumIs(yearDiff, 1) /\ titleSim > 80
            THEN [penalty |-> 10,
                  issues |-> << Txt.IssueYouWrote1 \o queryYear \o Txt.ActualIs
                                \o resultYear \o Txt.IssuePossibleVersion >>]
            ELSE [penalty |-> 25,
                  issues |-> << Txt.IssueYouWroteMismatch \o queryYear \o Txt.ActualIs
                                \o resultYear >>]
        Extracted(yearsInQuery) ==
            IF \/ ~(resultYear # <<>> /\ Len(resultYear) = 4)
               \/ InSeq(resultYear, yearsInQuery)
               \/ Len(yearsInQuery) = 0
            THEN [penalty |-> 0, issues |-> <<>>]
            ELSE Compared(yearsInQuery[1], YearDiff(yearsInQuery[1], resultYear))
    IN  Extracted(YearsInQuery(query))

\* Overall score of quick check that takes the branch of a title score above
\* 80 whatever the title score
FreeTextOverallTitleFirst(titleSim, authorSim, journalSim, yearPenalty) ==
    LET overallSim1 == IF authorSim >= 90 THEN Pts(titleSim)
                       ELSE Pts(titleSim) - 2 * (100 - authorSim)
        overallSim2 == IF journalSim = 0 /\ titleSim > 60
                       THEN overallSim1 - Pts(15) ELSE overallSim1
    IN  Max2(0, overallSim2)

\* Overall score of quick check, in quarter points.  overallSim holds minus
\* the year penalty when it is assigned here.
FreeTextOverall(titleSim, authorSim, journalSim, yearPenalty) ==
    LET overallSim0 == Pts(0 - yearPenalty)
        overallSim1 == IF titleSim > 80
                       THEN IF authorSim >= 90 THEN Pts(titleSim)
                            ELSE Pts(titleSim) - 2 * (100 - authorSim)
                       ELSE 2 * (titleSim + authorSim)
        overallSim2 == IF journalSim = 0 /\ titleSim > 60
                       THEN overallSim1 - Pts(15) ELSE overallSim1
    IN  Max2(0, overallSim2)

\* The scores and issues of the accepted item: validation logic and heuristics
ScoreItem(query, expected, item, titleSim0) ==
    LET resultYear == ItemYear(item)
        resultJournal == ItemJournal(item)
        structured == Truthy(expected.title)
        Clamp(confidence) ==
            IF confidence > Pts(100) THEN Pts(100)
            ELSE IF confidence < 0 THEN 0 ELSE confidence
        Scored(titleSim, author, journal, year) ==
            LET overallSim == IF structured
                              THEN titleSim + author.sim + journal.sim + year.sim
                              ELSE FreeTextOverall(titleSim, author.sim, journal.sim,
                                                   year.penalty)
                titleBad == titleSim < 70
                authorsBad == Truthy(expected.authors) /\ author.sim < 50
                journalBad == Truthy(expected.journal) /\ journal.sim < 70
            IN  [titleSim |-> titleSim, authorSim |-> author.sim, journalSim |-> journal.sim,
                 confidence |->
                     Clamp(overallSim
                           - (IF titleBad THEN Pts(20) ELSE 0)
                           - (IF authorsBad THEN Pts(20) ELSE 0)
                           - (IF journalBad
                              THEN (IF journal.sim < 40 THEN Pts(20) ELSE Pts(10)) ELSE 0)),
                 issues |->
                     author.issues \o journal.issues \o year.issues
                     \o (IF titleBad THEN << Txt.IssueTitleMismatch >> ELSE <<>>)
                     \o (IF authorsBad THEN << Txt.IssueAuthorsMismatch >> ELSE <<>>)
                     \o (IF journalBad
                         THEN << (IF journal.sim < 40 THEN Txt.IssueJournalMismatch
                                  ELSE Txt.IssueJournalDiffers)
                                 \o expected.journal \o Txt.Vs \o resultJournal \o Txt.Quote >>
                         ELSE <<>>)]
        Titled(titleSim) ==
            IF structured
            THEN Scored(titleSim,
                        StructuredAuthors(expected, item),
                        StructuredJournal(expected, resultJournal, titleSim),
                        StructuredYear(expected, resultYear, resultJournal, titleSim))
            ELSE Scored(titleSim,
                        FreeTextAuthors(query, item, titleSim),
                        FreeTextJournal(query, resultJournal, titleSim),
                        FreeTextYear(query, resultYear, resultJournal, titleSim))
    IN  Titled(IF ~structured /\ titleSim0 < 95
                  /\ Includes(normalize(query), normalize(ItemTitle(item)))
               THEN 95 ELSE titleSim0)

\* checkReference once the fetch has settled.  response.outcome is
\* "networkError" (fetch rejects), "httpError" (!response.ok) or "ok" with
\* response.items = data.message?.items || [].
checkReference(query, expected, response) ==
    IF response.outcome # "ok" \/ Len(response.items) = 0
    THEN NotFoundResult(0, <<>>)
    ELSE
    LET Accepted(item, s) ==
            [exists |-> TRUE,
             title |-> ItemTitle(item),
             authors |-> Join([k \in 1..Len(item.author) |-> JoinItem(item.author[k].family)],
                              Txt.CommaSpace),
             year |-> ItemYear(item),
             journal |-> ItemJournal(item),
             url |-> item.URL, doi |-> item.DOI, score |-> item.score,
             apa |-> formatAPA(item), bibtex |-> generateBibTeX(item),
             correctedApa |-> Undefined, correctedBibtex |-> Undefined,
             matchConfidence |-> s.confidence,
             titleMatchScore |-> s.titleSim,
             authorMatchScore |-> s.authorSim,
             journalMatchScore |-> s.journalSim,
             issues |-> s.issues, source |-> "CrossRef", fallbackSource |-> "none"]
        Gated(item, titleSim) ==
            IF TitleTooDifferent(titleSim)
            THEN NotFoundResult(titleSim, << Txt.IssueNoSimilarCrossRef >>)
            ELSE Accepted(item, ScoreItem(query, expected, item, titleSim))
        Selected(item) == Gated(item, TitleSimOf(query, expected, ItemTitle(item)))
    IN  Selected(SelectBest(query, expected, response.items, 1, response.items[1], -1))

\* ------------------------------------------- Semantic Scholar and OpenAlex

\* titleSimilarity of the two adapters: the share of common words
titleSimilarity(a, b) ==
    LET bySpace(t, i) == RunLen(t, i, IsSpaceChar)
        Elements(w) == {w[k] : k \in DOMAIN w}
        Shared(intersection, maxLen) ==
            IF maxLen > 0 THEN Round(intersection * 100, maxLen) ELSE 0
        Words(wordsA, wordsB) ==
            Shared(Cardinality(wordsA \cap wordsB),
                   Max2(Cardinality(wordsA), Cardinality(wordsB)))
        Cleaned(ca, cb) ==
            IF ca = cb THEN 100
            ELSE Words(Elements(SplitWith(ca, bySpace)), Elements(SplitWith(cb, bySpace)))
    IN  Cleaned(normalize(a), normalize(b))

\* The score of one provider record in the best-match loop of an adapter
adapterScore(title, expectedYear, recTitle, recYear) ==
    LET OffByOne(y) == ~y.nan /\ Abs(recYear[1] - y.val) = 1
    IN  titleSimilarity(title, recTitle)
        + (IF Truthy(expectedYear) /\ recYear # <<>>
           THEN IF NumToString(recYear[1]) = expectedYear THEN 20
                ELSE IF OffByOne(ParseInt(expectedYear)) THEN 5
                ELSE 0
           ELSE 0)

\* The loop of an adapter: the index of the first record with the highest score
RECURSIVE BestIndex(_, _, _, _, _, _)
BestIndex(title, expectedYear, recs, k, best, bestScore) ==
    IF k > Len(recs) THEN best
    ELSE LET Compared(sc) ==
                 IF sc > bestScore
                 THEN BestIndex(title, expectedYear, recs, k + 1, k, sc)
                 ELSE BestIndex(title, expectedYear, recs, k + 1, best, bestScore)
         IN  Compared(adapterScore(title, expectedYear, recs[k].title, recs[k].year))

\* A record an adapter cannot read: cleaning an absent title, or mapping an
\* absent author list, raises inside the try block
Unreadable(recs) == \E k \in DOMAIN recs : recs[k].title = Undefined

\* searchSemanticScholar once the fetch has settled: <<>> is null.  A paper
\* of response.data has paperId, title, authors (a list of names, or
\* NoList), year (<<>> or <<n>>), venue, DOI (externalIds?.DOI) and url.
searchSemanticScholar(title, expectedYear, response) ==
    IF response.outcome # "ok" \/ Len(response.data) = 0 \/ Unreadable(response.data)
    THEN <<>>
    ELSE LET Mapped(bestPaper) ==
                 IF bestPaper.authors = NoList THEN <<>>
                 ELSE << [paperId |-> bestPaper.paperId,
                          title |-> bestPaper.title,
                          authors |-> bestPaper.authors,
                          year |-> bestPaper.year,
                          venue |-> OrElse(bestPaper.venue, <<>>),
                          DOI |-> bestPaper.DOI,
                          url |-> OrElse(bestPaper.url,
                                         Txt.S2Paper \o Template(bestPaper.paperId))] >>
         IN  Mapped(response.data[BestIndex(title, expectedYear, response.data, 1, 1, -1)])

\* searchOpenAlex once the fetch has settled: <<>> is null.  A work of
\* response.data (results) has id, title, authors (the display names of its
\* authorships, or NoList), year (publication_year), journal
\* (primary_location?.source?.display_name) and doi.
searchOpenAlex(title, expectedYear, response) ==
    IF response.outcome # "ok" \/ Len(response.data) = 0 \/ Unreadable(response.data)
    THEN <<>>
    ELSE LET Mapped(bestWork) ==
                 IF bestWork.authors = NoList THEN <<>>
                 ELSE << [id |-> bestWork.id,
                          title |-> bestWork.title,
                          authors |-> bestWork.authors,
                          year |-> bestWork.year,
                          journal |-> OrElse(bestWork.journal, <<>>),
                          doi |-> bestWork.doi,
                          url |-> OrElse(bestWork.doi, bestWork.id)] >>
         IN  Mapped(response.data[BestIndex(title, expectedYear, response.data, 1, 1, -1)])

\* The separator that is one space
SepSpace(s, i) == IF s[i] = " " THEN 1 ELSE 0

\* One author of an APA citation of a secondary source: Last, I. I.
ApaName(name) ==
    LET Formatted(parts) ==
            parts[Len(parts)] \o Txt.CommaSpace
            \o Join([k \in 1..(Len(parts) - 1) |->
                        (IF parts[k] = <<>> THEN Txt.Undefined ELSE << parts[k][1] >>)
                        \o <<".">>],
                    <<" ">>)
    IN  Formatted(SplitWith(name, SepSpace))

\* The author list of an APA citation of a secondary source
ApaAuthors(authors) ==
    Join([k \in 1..Len(authors) |->
             IF k = Len(authors) /\ Len(authors) > 1
             THEN <<"&", " ">> \o ApaName(authors[k]) ELSE ApaName(authors[k])],
         Txt.CommaSpace)

\* name.split raises on a name that is null
NamesThrow(authors) == \E k \in DOMAIN authors : authors[k] = Undefined

YearOrNd(year) == IF year = <<>> THEN Txt.Nd ELSE NumToString(year[1])

formatSemanticScholarAPA(paper) ==
    ApaAuthors(paper.authors) \o <<" ", "(">> \o YearOrNd(paper.year) \o <<")", ".", " ">>
    \o paper.title \o <<".">>
    \o (IF paper.venue # <<>> THEN <<" ">> \o paper.venue \o <<".">> ELSE <<>>)
    \o (IF Truthy(paper.DOI) THEN <<" ">> \o Txt.DoiOrg \o paper.DOI ELSE <<>>)

formatOpenAlexAPA(work) ==
    ApaAuthors(work.authors) \o <<" ", "(">> \o YearOrNd(work.year) \o <<")", ".", " ">>
    \o work.title \o <<".">>
    \o (IF work.journal # <<>> THEN <<" ">> \o work.journal \o <<".">> ELSE <<>>)
    \o (IF Truthy(work.doi) THEN <<" ">> \o work.doi ELSE <<>>)

\* s.split(one space).pop()
LastPart(s) == LET Last(parts) == parts[Len(parts)] IN Last(SplitWith(s, SepSpace))

\* The citation key of a secondary source
SecondaryId(authors, year, title) ==
    LET first == IF Len(authors) = 0 \/ authors[1] = Undefined THEN <<>>
                 ELSE LastPart(authors[1])
    IN  OrElse(first, Txt.Unknown) \o YearOrNd(year) \o AlphaNum(FirstWord(title))

SecondaryAuthors(authors) ==
    Join([k \in 1..Len(authors) |-> JoinItem(authors[k])], Txt.SpAndSp)

generateSemanticScholarBibTeX(paper) ==
    BibRecord(SecondaryId(paper.authors, paper.year, paper.title), paper.title,
              SecondaryAuthors(paper.authors), YearOrNd(paper.year), paper.venue,
              OrElse(paper.DOI, <<>>))

\* doi.replace of the literal https://doi.org/, its first occurrence
StripDoiOrg(doi) ==
    LET Cut(i) == SubSeq(doi, 1, i - 1) \o SubSeq(doi, i + Len(Txt.DoiOrg), Len(doi))
        First(at) == IF at = {} THEN doi ELSE Cut(CHOOSE x \in at : \A y \in at : x <= y)
    IN  First({i \in 1..Len(doi) : ExactAt(doi, i, Txt.DoiOrg)})

generateOpenAlexBibTeX(work) ==
    BibRecord(SecondaryId(work.authors, work.year, work.title), work.title,
              SecondaryAuthors(work.authors), YearOrNd(work.year), work.journal,
              IF Truthy(work.doi) THEN StripDoiOrg(work.doi) ELSE <<>>)

\* ------------------------------------------------------ checkWithFallback

\* name.toLowerCase().replace(/[^a-z\s]/g, empty).trim()
normalizeAuthorName(name) ==
    Trim(SelectSeq(ToLowerCase(name), LAMBDA c : c \in LowerSet \/ IsSpaceChar(c)))

authorsMatch(source1Authors, source2Authors) ==
    IF Len(source1Authors) = 0 \/ Len(source2Authors) = 0 THEN FALSE
    ELSE
    LET Normalized(norm1, norm2) ==
            LET hitBy(lastName) ==
                    \E k \in DOMAIN norm2 :
                       \/ Includes(norm2[k], lastName)
                       \/ Includes(lastName, LastPart(norm2[k]))
                hit(author) == hitBy(OrElse(LastPart(author), author))
            IN  2 * Len(SelectSeq(norm1, hit)) >= Len(source1Authors)
    IN  Normalized([k \in DOMAIN source1Authors |-> normalizeAuthorName(source1Authors[k])],
                   [k \in DOMAIN source2Authors |-> normalizeAuthorName(source2Authors[k])])

\* The separator /[,&]|and/i at position i
SepAuthors(s, i) ==
    IF s[i] \in {",", "&"} THEN 1 ELSE IF MatchesAt(s, i, Txt.And) THEN 3 ELSE 0

\* expected.authors.split(/[,&]|and/i).map(a => a.trim())
expectedAuthorList(authors) ==
    LET Trimmed(parts) == [k \in DOMAIN parts |-> Trim(parts[k])]
    IN  Trimmed(SplitWith(authors, SepAuthors))

\* The separator that is a comma and a space
SepCommaSpace(s, i) == IF ExactAt(s, i, Txt.CommaSpace) THEN 2 ELSE 0

\* Whether a secondary source with these authors confirms the authors CrossRef
\* found against the expected ones
ConfirmsDifferentAuthors(expected, crossRefResult, authors) ==
    /\ Truthy(expected.authors)
    /\ ~authorsMatch(expectedAuthorList(expected.authors), authors)
    /\ authorsMatch(SplitWith(OrElse(crossRefResult.authors, <<>>), SepCommaSpace), authors)

\* Whether an issue of the CrossRef result mentions a year, a version or a preprint
HasVersionIssue(issues) ==
    \E k \in DOMAIN issues :
        \/ Includes(ToLowerCase(issues[k]), Txt.Year)
        \/ Includes(ToLowerCase(issues[k]), Txt.Version)
        \/ Includes(ToLowerCase(issues[k]), Txt.Preprint)

\* A faulty variant of HasExpectedYear: any year of a secondary source counts
HasExpectedYearAny(expectedYear, year) == year # <<>>

\* Whether a secondary source has the expected year
HasExpectedYear(expectedYear, year) ==
    /\ Truthy(expectedYear)
    /\ year # <<>>
    /\ NumToString(year[1]) = expectedYear

\* A faulty variant of WithCorrection: the fallback source is not recorded
WithCorrectionUntagged(crossRefResult, apa, bibtex, source, boost) ==
    [crossRefResult EXCEPT
        !.correctedApa = apa, !.correctedBibtex = bibtex,
        !.matchConfidence = IF boost THEN Min2(Pts(100), crossRefResult.matchConfidence + Pts(15))
                            ELSE crossRefResult.matchConfidence]

\* A faulty variant of WithCorrection: the citation of CrossRef is overwritten too
WithCorrectionReplacing(crossRefResult, apa, bibtex, source, boost) ==
    [crossRefResult EXCEPT
        !.apa = apa, !.bibtex = bibtex,
        !.correctedApa = apa, !.correctedBibtex = bibtex, !.fallbackSource = source,
        !.matchConfidence = IF boost THEN Min2(Pts(100), crossRefResult.matchConfidence + Pts(15))
                            ELSE crossRefResult.matchConfidence]

\* A faulty variant of WithCorrection: the boosted confidence is not capped
WithCorrectionUncapped(crossRefResult, apa, bibtex, source, boost) ==
    [crossRefResult EXCEPT
        !.correctedApa = apa, !.correctedBibtex = bibtex, !.fallbackSource = source,
        !.matchConfidence = IF boost THEN crossRefResult.matchConfidence + Pts(15)
                            ELSE crossRefResult.matchConfidence]

\* A faulty variant of WithCorrection: the result is attributed to the
\* secondary source
WithCorrectionResourced(crossRefResult, apa, bibtex, source, boost) ==
    [crossRefResult EXCEPT
        !.source = source,
        !.correctedApa = apa, !.correctedBibtex = bibtex, !.fallbackSource = source,
        !.matchConfidence = IF boost THEN Min2(Pts(100), crossRefResult.matchConfidence + Pts(15))
                            ELSE crossRefResult.matchConfidence]

\* crossRefResult after checkWithFallback has attached the citation of a
\* secondary source to it, with the confidence boost or without
WithCorrection(crossRefResult, apa, bibtex, source, boost) ==
    [crossRefResult EXCEPT
        !.correctedApa = apa, !.correctedBibtex = bibtex, !.fallbackSource = source,
        !.matchConfidence = IF boost THEN Min2(Pts(100), crossRefResult.matchConfidence + Pts(15))
                            ELSE crossRefResult.matchConfidence]

\* A faulty variant of FromSemanticScholar: the confidence is capped at 100
FromSemanticScholarCeiling(paper, ssTitleSim) ==
    [exists |-> TRUE,
     title |-> paper.title,
     authors |-> Join([k \in 1..Len(paper.authors) |-> JoinItem(paper.authors[k])],
                      Txt.CommaSpace),
     year |-> IF paper.year = <<>> THEN <<>> ELSE NumToString(paper.year[1]),
     journal |-> paper.venue, url |-> paper.url, doi |-> paper.DOI, score |-> <<>>,
     apa |-> formatSemanticScholarAPA(paper),
     bibtex |-> generateSemanticScholarBibTeX(paper),
     correctedApa |-> Undefined, correctedBibtex |-> Undefined,
     matchConfidence |-> Pts(Min2(100, ssTitleSim + 10)),
     titleMatchScore |-> ssTitleSim,
     authorMatchScore |-> 100,
     journalMatchScore |-> IF paper.venue # <<>> THEN 90 ELSE 50,
     issues |-> <<>>, source |-> "SemanticScholar", fallbackSource |-> "none"]

\* The CheckResult built from a Semantic Scholar paper when CrossRef found nothing
FromSemanticScholar(paper, ssTitleSim) ==
    [exists |-> TRUE,
     title |-> paper.title,
     authors |-> Join([k \in 1..Len(paper.authors) |-> JoinItem(paper.authors[k])],
                      Txt.CommaSpace),
     year |-> IF paper.year = <<>> THEN <<>> ELSE NumToString(paper.year[1]),
     journal |-> paper.venue, url |-> paper.url, doi |-> paper.DOI, score |-> <<>>,
     apa |-> formatSemanticScholarAPA(paper),
     bibtex |-> generateSemanticScholarBibTeX(paper),
     correctedApa |-> Undefined, correctedBibtex |-> Undefined,
     matchConfidence |-> Pts(Min2(95, ssTitleSim + 10)),
     titleMatchScore |-> ssTitleSim,
     authorMatchScore |-> 100,
     journalMatchScore |-> IF paper.venue # <<>> THEN 90 ELSE 50,
     issues |-> <<>>, source |-> "SemanticScholar", fallbackSource |-> "none"]

\* The CheckResult built from an OpenAlex work when CrossRef found nothing
FromOpenAlex(work, oaTitleSim) ==
    [exists |-> TRUE,
     title |-> work.title,
     authors |-> Join([k \in 1..Len(work.authors) |-> JoinItem(work.authors[k])],
                      Txt.CommaSpace),
     year |-> IF work.year = <<>> THEN <<>> ELSE NumToString(work.year[1]),
     journal |-> work.journal, url |-> work.url,
     doi |-> IF Truthy(work.doi) THEN work.doi ELSE Undefined, score |-> <<>>,
     apa |-> formatOpenAlexAPA(work),
     bibtex |-> generateOpenAlexBibTeX(work),
     correctedApa |-> Undefined, correctedBibtex |-> Undefined,
     matchConfidence |-> Pts(Min2(90, oaTitleSim + 5)),
     titleMatchScore |-> oaTitleSim,
     authorMatchScore |-> 100,
     journalMatchScore |-> IF work.journal # <<>> THEN 85 ELSE 50,
     issues |-> <<>>, source |-> "OpenAlex", fallbackSource |-> "none"]

\* A faulty variant of NeedsFallback: the issues are not looked at
NeedsFallbackNoIssues(crossRefResult) ==
    \/ ~crossRefResult.exists
    \/ crossRefResult.matchConfidence < Pts(70)

\* The condition under which checkWithFallback consults the secondary sources
NeedsFallback(crossRefResult) ==
    \/ ~crossRefResult.exists
    \/ crossRefResult.matchConfidence < Pts(70)
    \/ Len(crossRefResult.issues) > 0

\* A faulty variant of AfterSemanticScholar: it returns the CrossRef result
\* without going on to OpenAlex
AfterSemanticScholarStops(title, expected, crossRefResult, ssResult) ==
    [kind |-> "return", value |-> crossRefResult]

\* What checkWithFallback does with the answer of Semantic Scholar: it returns
\* value, raises, or goes on to OpenAlex
AfterSemanticScholar(title, expected, crossRefResult, ssResult) ==
    LET go == [kind |-> "continue", value |-> crossRefResult]
        raise == [kind |-> "throw", value |-> crossRefResult]
        Found(paper, ssTitleSim) ==
            IF ~crossRefResult.exists
            THEN IF TitleTooDifferent(ssTitleSim) THEN go
                 ELSE IF NamesThrow(paper.authors) THEN raise
                 ELSE [kind |-> "return", value |-> FromSemanticScholar(paper, ssTitleSim)]
            ELSE IF Truthy(expected.authors) /\ NamesThrow(paper.authors) THEN raise
            ELSE IF ConfirmsDifferentAuthors(expected, crossRefResult, paper.authors)
            THEN [kind |-> "return",
                  value |-> WithCorrection(crossRefResult, formatSemanticScholarAPA(paper),
                                           generateSemanticScholarBibTeX(paper),
                                           "SemanticScholar", FALSE)]
            ELSE IF HasVersionIssue(crossRefResult.issues)
                    /\ HasExpectedYear(expected.year, paper.year)
            THEN IF NamesThrow(paper.authors) THEN raise
                 ELSE [kind |-> "return",
                       value |-> WithCorrection(crossRefResult, formatSemanticScholarAPA(paper),
                                                generateSemanticScholarBibTeX(paper),
                                                "SemanticScholar", TRUE)]
            ELSE go
    IN  IF ssResult = <<>> THEN go
        ELSE Found(ssResult[1], calculateSimilarity(title, ssResult[1].title))

\* What checkWithFallback does with the answer of OpenAlex: it returns value or raises
AfterOpenAlex(title, expected, crossRefResult, oaResult) ==
    LET last == [kind |-> "return",
                 value |-> IF ~crossRefResult.exists
                           THEN NotFoundResult(0, << Txt.IssueAllSources >>)
                           ELSE crossRefResult]
        raise == [kind |-> "throw", value |-> crossRefResult]
        Found(work, oaTitleSim) ==
            IF ~crossRefResult.exists
            THEN IF TitleTooDifferent(oaTitleSim)
                 THEN [kind |-> "return",
                       value |-> NotFoundResult(Max2(crossRefResult.titleMatchScore, oaTitleSim),
                                                << Txt.IssueAllSources >>)]
                 ELSE IF NamesThrow(work.authors) THEN raise
                 ELSE [kind |-> "return", value |-> FromOpenAlex(work, oaTitleSim)]
            ELSE IF Truthy(expected.authors) /\ NamesThrow(work.authors) THEN raise
            ELSE IF ConfirmsDifferentAuthors(expected, crossRefResult, work.authors)
            THEN [kind |-> "return",
                  value |-> WithCorrection(crossRefResult, formatOpenAlexAPA(work),
                                           generateOpenAlexBibTeX(work), "OpenAlex", FALSE)]
            ELSE IF HasVersionIssue(crossRefResult.issues)
                    /\ HasExpectedYear(expected.year, work.year)
            THEN IF NamesThrow(work.authors) THEN raise
                 ELSE [kind |-> "return",
                       value |-> WithCorrection(crossRefResult, formatOpenAlexAPA(work),
                                                generateOpenAlexBibTeX(work), "OpenAlex", TRUE)]
            ELSE last
    IN  IF oaResult = <<>> THEN last
        ELSE Found(oaResult[1], calculateSimilarity(title, oaResult[1].title))

\* ------------------------------------------------------------- the inputs

\* The largest number of records in one provider answer
MaxRecords == 2

\* checkWithFallback(query) without expected metadata: every expected?.x is undefined
NoExpected ==
    [title |-> Undefined, authors |-> Undefined, journal |-> Undefined, year |-> Undefined]

\* The calls: quick checks (free text) and batch entries (query is title, a space, author)
Calls == {
    [query |-> <<"S", "m", "i", "t", "h", " ", "J", ".", " ", "D", "e", "e", "p", " ", "N", "e", "t", "s", ".", " ", "A", "I", " ", "J", "o", "u", "r", "n", "a", "l", ".", " ", "2", "0", "2", "1">>, expected |-> NoExpected],
    [query |-> <<"S", "m", "i", "t", "h", " ", "J", ",", " ", "B", "a", "u", "d", "o", " ", "P", ".", " ", "D", "e", "e", "p", " ", "N", "e", "t", "s", ".", " ", "2", "0", "2", "0">>, expected |-> NoExpected],
    [query |-> <<"D", "e", "e", "p", " ", "N", "e", "t", "s", " ", "S", "m", "i", "t", "h", ",", " ", "J", ".">>,
     expected |-> [title |-> <<"D", "e", "e", "p", " ", "N", "e", "t", "s">>, authors |-> <<"S", "m", "i", "t", "h", ",", " ", "J", ".">>,
                   journal |-> <<"a", "r", "X", "i", "v">>, year |-> <<"2", "0", "2", "0">>]],
    [query |-> <<"D", "e", "e", "p", " ", "N", "e", "t", "s", " ", "B", "a", "u", "d", "o", ",", " ", "P", ".", " ", "a", "n", "d", " ", "P", "i", "n", "c", "o", ",", " ", "Q", ".">>,
     expected |-> [title |-> <<"D", "e", "e", "p", " ", "N", "e", "t", "s">>, authors |-> <<"B", "a", "u", "d", "o", ",", " ", "P", ".", " ", "a", "n", "d", " ", "P", "i", "n", "c", "o", ",", " ", "Q", ".">>,
                   journal |-> Undefined, year |-> <<"2", "0", "2", "0">>]],
    [query |-> <<"D", "e", "e", "p", " ", "N", "e", "s", "t", " ">>,
     expected |-> [title |-> <<"D", "e", "e", "p", " ", "N", "e", "s", "t">>, authors |-> Undefined,
                   journal |-> <<"A", "I", " ", "J", "o", "u", "r", "n", "a", "l">>, year |-> Undefined]],
    [query |-> <<"S", "m", "i", "t", "h", " ", "J", ",", " ", "J", "o", "n", "e", "s", " ", "P", ".", " ", "D", "e", "e", "p", " ", "N", "e", "t", "s", ".", " ", "2", "0", "2", "0">>, expected |-> NoExpected],
    [query |-> <<"A", "n", "n", " ", "B", "o", "b", " ", "C", "a", "t", " ", "D", "a", "n", " ", "E", "v", "e", " ", "F", "a", "y", ".", " ", "D", "e", "e", "p", " ", "N", "e", "t", "s">>, expected |-> NoExpected] }

\* CrossRef works
Items == {
    [title |-> <<"D", "e", "e", "p", " ", "N", "e", "t", "s">>, author |-> << [family |-> <<"S", "m", "i", "t", "h">>, given |-> <<"J", "o", "h", "n">>] >>,
     year |-> <<2021>>, journal |-> <<"A", "I", " ", "J", "o", "u", "r", "n", "a", "l">>, DOI |-> <<"1", "0", ".", "1", "/", "d", "n">>,
     URL |-> <<"h", "t", "t", "p", ":", "/", "/", "d", "x", ".", "d", "o", "i", ".", "o", "r", "g", "/", "1", "0", ".", "1", "/", "d", "n">>, score |-> <<42>>],
    [title |-> <<"D", "e", "e", "p", " ", "N", "e", "t", "s">>, author |-> << [family |-> <<"S", "m", "i", "t", "h">>, given |-> Undefined] >>,
     year |-> <<2020>>, journal |-> <<"a", "r", "X", "i", "v">>, DOI |-> Undefined,
     URL |-> <<"h", "t", "t", "p", ":", "/", "/", "a", "r", "x", "i", "v", ".", "o", "r", "g", "/", "1">>, score |-> <<40>>],
    [title |-> <<"D", "e", "e", "p", " ", "S", "e", "a", " ", "N", "e", "t", "s">>, author |-> <<>>,
     year |-> <<>>, journal |-> Undefined, DOI |-> Undefined,
     URL |-> Undefined, score |-> <<>>],
    [title |-> <<"S", "h", "a", "l", "l", "o", "w", " ", "W", "a", "t", "e", "r">>, author |-> << [family |-> <<"D", "o", "e">>, given |-> <<"J", "a", "n", "e">>] >>,
     year |-> <<1999>>, journal |-> <<"H", "y", "d", "r", "o", "l", "o", "g", "y">>, DOI |-> <<"1", "0", ".", "1", "/", "s", "w">>,
     URL |-> Undefined, score |-> <<7>>] }

\* Semantic Scholar papers
Papers == {
    [paperId |-> <<"p", "1">>, title |-> <<"D", "e", "e", "p", " ", "N", "e", "t", "s">>, authors |-> << <<"J", "o", "h", "n", " ", "S", "m", "i", "t", "h">> >>,
     year |-> <<2020>>, venue |-> <<"a", "r", "X", "i", "v">>, DOI |-> <<"1", "0", ".", "1", "/", "d", "n">>, url |-> Undefined],
    [paperId |-> <<"p", "2">>, title |-> <<"D", "e", "e", "p", " ", "N", "e", "t", "s">>, authors |-> << <<"P", "a", "t", " ", "B", "a", "u", "d", "o">>, <<"Q", "u", "i", "n", "n", " ", "P", "i", "n", "c", "o">> >>,
     year |-> <<2020>>, venue |-> Undefined, DOI |-> Undefined, url |-> <<"h", "t", "t", "p", ":", "/", "/", "s", "2", ".", "o", "r", "g", "/", "p", "2">>],
    [paperId |-> <<"p", "3">>, title |-> <<"D", "e", "e", "p", " ", "S", "e", "a">>, authors |-> << Undefined >>,
     year |-> <<>>, venue |-> Undefined, DOI |-> Undefined, url |-> Undefined],
    [paperId |-> <<"p", "4">>, title |-> Undefined, authors |-> NoList,
     year |-> <<2020>>, venue |-> Undefined, DOI |-> Undefined, url |-> Undefined],
    [paperId |-> <<"p", "5">>, title |-> <<"D", "e", "e", "p", " ", "N", "e", "t", "s">>, authors |-> NoList,
     year |-> <<2021>>, venue |-> <<"A", "I", " ", "J", "o", "u", "r", "n", "a", "l">>, DOI |-> Undefined, url |-> Undefined] }

\* OpenAlex works
Works == {
    [id |-> <<"W", "1">>, title |-> <<"D", "e", "e", "p", " ", "N", "e", "t", "s">>, authors |-> << <<"J", "o", "h", "n", " ", "S", "m", "i", "t", "h">> >>,
     year |-> <<2020>>, journal |-> <<"A", "I", " ", "J", "o", "u", "r", "n", "a", "l">>, doi |-> <<"h", "t", "t", "p", "s", ":", "/", "/", "d", "o", "i", ".", "o", "r", "g", "/", "1", "0", ".", "1", "/", "d", "n">>],
    [id |-> <<"W", "2">>, title |-> <<"D", "e", "e", "p", " ", "N", "e", "t", "s">>, authors |-> <<>>,
     year |-> <<2021>>, journal |-> Undefined, doi |-> Undefined],
    [id |-> <<"W", "3">>, title |-> <<"D", "e", "e", "p", " ", "S", "e", "a">>, authors |-> << <<"P", "a", "t", " ", "B", "a", "u", "d", "o">> >>,
     year |-> <<>>, journal |-> Undefined, doi |-> Undefined],
    [id |-> <<"W", "4">>, title |-> <<"D", "e", "e", "p", " ", "N", "e", "t", "s">>, authors |-> NoList,
     year |-> <<2021>>, journal |-> <<"A", "I", " ", "J", "o", "u", "r", "n", "a", "l">>, doi |-> Undefined] }

\* The lists of at most MaxRecords distinct records of a pool
ListsOf(pool) ==
    UNION { {l \in [1..n -> pool] : \A j, k \in 1..n : l[j] = l[k] => j = k} :
            n \in 0..MaxRecords }

\* How a fetch fails: it rejects (networkError), or it gets a status that is
\* not ok (httpError), 429 for rate limiting among them
Failures == {"networkError", "httpError"}

\* What a fetch can come to: it fails, or answers ok with a list of records
CrossRefResponses ==
    { [outcome |-> o, items |-> <<>>] : o \in Failures }
    \cup { [outcome |-> "ok", items |-> l] : l \in ListsOf(Items) }

SemanticScholarResponses ==
    { [outcome |-> o, data |-> <<>>] : o \in Failures }
    \cup { [outcome |-> "ok", data |-> l] : l \in ListsOf(Papers) }

OpenAlexResponses ==
    { [outcome |-> o, data |-> <<>>] : o \in Failures }
    \cup { [outcome |-> "ok", data |-> l] : l \in ListsOf(Works) }

\* ---------------------------------------------------------- the state machine

VARIABLES
    pc,              \* where checkWithFallback is: idle, awaiting one of the three
                     \* providers, done (returned) or threw (rejected)
    query, expected, \* its arguments
    bestItem,        \* the CrossRef work checkReference selected, <<>> when it had none
    crossRefResult,  \* <<>> until checkReference has returned, then << its result >>
    ssResult,        \* what searchSemanticScholar returned: <<>> is null
    oaResult,        \* what searchOpenAlex returned: <<>> is null
    result,          \* << the CheckResult returned >>, <<>> before
    requests,        \* the providers fetched so far, in order
    inflight,        \* the providers whose fetch has not settled
    answer,          \* the fetch that settled last and how it ended, <<>> before
    bpc,             \* where handleBatchCheck is: none (not called), checking
                     \* (awaiting checkWithFallback), delay (awaiting the timer),
                     \* finished (returned) or aborted (rejected)
    batch,           \* its entries: the arguments of checkWithFallback for each
    i,               \* its loop index, from 1
    batchResults,    \* newResults: for each entry, loading and << result >>
    waited,          \* the milliseconds the loop has waited since the last check ended
    verified,        \* the checks started so far: the entry and the wait before it
    fn, args, out,   \* a function of the core applied on its own: its name, its
                     \* arguments and << its value >>, <<>> before it returns
    showBatchView,   \* the state of App: whether the batch page is shown,
    loadingQuick,    \* whether the quick card is loading,
    quickResult,     \* << the call whose result the quick card shows >>, <<>> is null,
    batchResultsState, \* and the state batchResults: for each card its batch, its
                     \* item and whether it is loading
    quickChecks,     \* the calls of handleQuickCheck that await checkWithFallback
    loops,           \* the calls of handleBatchCheck whose loop has not ended: for
                     \* each its newResults, its index i and what it awaits
    runs,            \* the number of handlers called so far: a call is named by it
    lastQuick,       \* the handleQuickCheck called last, 0 when none
    lastBatch        \* the handleBatchCheck called last, 0 when none

callVars ==
    <<pc, query, expected, bestItem, crossRefResult, ssResult, oaResult, result, requests,
      inflight, answer>>

batchVars == <<bpc, batch, i, batchResults, waited, verified>>

fnVars == <<fn, args, out>>

uiVars ==
    <<showBatchView, loadingQuick, quickResult, batchResultsState, quickChecks, loops, runs,
      lastQuick, lastBatch>>

vars == <<callVars, batchVars, fnVars, uiVars>>

\* No call of checkWithFallback is under way
CallIdle ==
    /\ pc = "idle"
    /\ query = <<>>
    /\ expected = NoExpected
    /\ bestItem = <<>>
    /\ crossRefResult = <<>>
    /\ ssResult = <<>>
    /\ oaResult = <<>>
    /\ result = <<>>
    /\ requests = <<>>
    /\ inflight = {}
    /\ answer = <<>>

\* handleBatchCheck has not been called
BatchIdle ==
    /\ bpc = "none"
    /\ batch = <<>>
    /\ i = 1
    /\ batchResults = <<>>
    /\ waited = 0
    /\ verified = <<>>

\* No function is applied on its own
FnIdle == fn = "none" /\ args = <<>> /\ out = <<>>

\* App as it is mounted: the main page, nothing loading, no handler called
UiIdle ==
    /\ showBatchView = FALSE
    /\ loadingQuick = FALSE
    /\ quickResult = <<>>
    /\ batchResultsState = <<>>
    /\ quickChecks = {}
    /\ loops = <<>>
    /\ runs = 0
    /\ lastQuick = 0
    /\ lastBatch = 0

Init == CallIdle /\ BatchIdle /\ FnIdle /\ UiIdle

\* How a fetch ended: its failure, or ok with no record or with records
AnswerKind(outcome, records) ==
    IF outcome # "ok" THEN outcome
    ELSE IF Len(records) = 0 THEN "empty" ELSE "records"

\* A fetch to provider p starts
Fetch(p) ==
    /\ requests' = Append(requests, p)
    /\ inflight' = inflight \cup {p}

\* A faulty variant of Settle: the fetch to q starts while that to p is pending
SettleKeeping(p, q) ==
    /\ requests' = Append(requests, q)
    /\ inflight' = inflight \cup {q}

\* The fetch to provider p has settled and the fetch to provider q starts
Settle(p, q) ==
    /\ requests' = Append(requests, q)
    /\ inflight' = (inflight \ {p}) \cup {q}

\* The fetch to provider p has settled and no other starts
SettleLast(p) ==
    /\ inflight' = inflight \ {p}
    /\ UNCHANGED requests

\* checkWithFallback(c.query, c.expected) runs up to its first await:
\* checkReference fetches from CrossRef
Invoke(c) ==
    /\ query' = c.query
    /\ expected' = c.expected
    /\ pc' = "crossref"
    /\ Fetch("CrossRef")
    /\ UNCHANGED <<bestItem, crossRefResult, ssResult, oaResult, result, answer>>

\* checkWithFallback(q, e) is called on its own (a quick check)
Call(c) ==
    /\ pc = "idle"
    /\ bpc = "none"
    /\ fn = "none"
    /\ Invoke(c)
    /\ UNCHANGED <<batchVars, fnVars, uiVars>>

\* The CrossRef fetch settles: checkReference returns, and checkWithFallback
\* returns its result or goes on to Semantic Scholar
CrossRefSettles(response) ==
    /\ pc = "crossref"
    /\ bestItem' = IF response.outcome # "ok" \/ Len(response.items) = 0 THEN <<>>
                   ELSE << SelectBest(query, expected, response.items, 1,
                                      response.items[1], -1) >>
    /\ answer' = << [provider |-> "CrossRef",
                      kind |-> AnswerKind(response.outcome, response.items)] >>
    /\ \E r \in {checkReference(query, expected, response)} :
           /\ crossRefResult' = << r >>
           /\ IF NeedsFallback(r)
              THEN /\ pc' = "semanticscholar"
                   /\ Settle("CrossRef", "SemanticScholar")
                   /\ UNCHANGED result
              ELSE /\ pc' = "done"
                   /\ SettleLast("CrossRef")
                   /\ result' = << r >>
    /\ UNCHANGED <<query, expected, ssResult, oaResult, batchVars, fnVars, uiVars>>

\* The Semantic Scholar fetch settles
SemanticScholarSettles(response) ==
    /\ pc = "semanticscholar"
    /\ answer' = << [provider |-> "SemanticScholar",
                      kind |-> AnswerKind(response.outcome, response.data)] >>
    /\ \E ss \in {searchSemanticScholar(OrElse(expected.title, query), expected.year,
                                         response)} :
       \E next \in {AfterSemanticScholar(OrElse(expected.title, query), expected,
                                         crossRefResult[1], ss)} :
           /\ ssResult' = ss
           /\ IF next.kind = "continue"
              THEN /\ pc' = "openalex"
                   /\ Settle("SemanticScholar", "OpenAlex")
                   /\ UNCHANGED result
              ELSE /\ pc' = IF next.kind = "return" THEN "done" ELSE "threw"
                   /\ SettleLast("SemanticScholar")
                   /\ result' = IF next.kind = "return" THEN << next.value >> ELSE <<>>
    /\ UNCHANGED <<query, expected, bestItem, crossRefResult, oaResult, batchVars, fnVars, uiVars>>

\* The OpenAlex fetch settles
OpenAlexSettles(response) ==
    /\ pc = "openalex"
    /\ answer' = << [provider |-> "OpenAlex",
                      kind |-> AnswerKind(response.outcome, response.data)] >>
    /\ \E oa \in {searchOpenAlex(OrElse(expected.title, query), expected.year, response)} :
       \E next \in {AfterOpenAlex(OrElse(expected.title, query), expected,
                                  crossRefResult[1], oa)} :
           /\ oaResult' = oa
           /\ pc' = IF next.kind = "return" THEN "done" ELSE "threw"
           /\ SettleLast("OpenAlex")
           /\ result' = IF next.kind = "return" THEN << next.value >> ELSE <<>>
    /\ UNCHANGED <<query, expected, bestItem, crossRefResult, ssResult, batchVars, fnVars, uiVars>>

Next ==
    \/ \E c \in Calls : Call(c)
    \/ \E response \in CrossRefResponses : CrossRefSettles(response)
    \/ \E response \in SemanticScholarResponses : SemanticScholarSettles(response)
    \/ \E response \in OpenAlexResponses : OpenAlexSettles(response)

Spec == Init /\ [][Next]_vars

\* ------------------------------------------------------- handleBatchCheck

\* The pause of the loop between two entries, in milliseconds
INTER_ITEM_DELAY == 800

\* The largest number of entries in one batch
MaxBatch == 2

\* searchQuery of a parsed BibTeX entry: its title, a space, its author
searchQuery(entryTags) ==
    Template(entryTags.title) \o <<" ">> \o OrElse(entryTags.authors, <<>>)

\* The parsed entries of a batch: the check of each is called with its search
\* query and its tags.  These are the entries that have an author.
BatchEntries ==
    { [query |-> searchQuery(c.expected), expected |-> c.expected] :
          c \in {d \in Calls : Truthy(d.expected.authors)} }

\* The lines of a batch that is no BibTeX: the check of each is called with the
\* line alone.  These are the lines that name a journal.
BatchLines ==
    {c \in Calls : /\ c.expected = NoExpected
                    /\ Includes(c.query, <<"J", "o", "u", "r", "n", "a", "l">>)}

\* The batches: parsed entries (one at least), or lines (none when every line
\* of the input is too short)
Batches ==
    UNION { [1..n -> BatchEntries] : n \in 1..MaxBatch }
    \cup UNION { [1..n -> BatchLines] : n \in 0..MaxBatch }

\* What the fetches of a batch come to: a failure, or one record, which has a
\* DOI or, for Semantic Scholar, an author without a name
BatchCrossRefResponses ==
    {r \in CrossRefResponses :
        \/ r.outcome = "networkError"
        \/ Len(r.items) = 1 /\ Truthy(r.items[1].DOI)}

BatchSemanticScholarResponses ==
    {r \in SemanticScholarResponses :
        \/ r.outcome = "networkError"
        \/ Len(r.data) = 1 /\ (Truthy(r.data[1].DOI) \/ NamesThrow(r.data[1].authors))}

BatchOpenAlexResponses ==
    {r \in OpenAlexResponses :
        \/ r.outcome = "networkError"
        \/ Len(r.data) = 1 /\ Truthy(r.data[1].doi)}

\* handleBatchCheck is called on the batch b: every entry is shown as loading,
\* and the loop checks the first entry without a pause
HandleBatchCheck(b) ==
    /\ bpc = "none"
    /\ pc = "idle"
    /\ fn = "none"
    /\ batch' = b
    /\ batchResults' = [k \in 1..Len(b) |-> [loading |-> TRUE, result |-> <<>>]]
    /\ i' = 1
    /\ waited' = 0
    /\ IF Len(b) = 0
       THEN /\ bpc' = "finished"
            /\ verified' = <<>>
            /\ UNCHANGED callVars
       ELSE /\ bpc' = "checking"
            /\ verified' = << [item |-> 1, waited |-> 0] >>
            /\ Invoke(b[1])
    /\ UNCHANGED <<fnVars, uiVars>>

\* checkWithFallback returns to the loop: the entry gets its result and stops
\* loading; the loop pauses before the next entry, or ends after the last
CheckReturns ==
    /\ bpc = "checking"
    /\ pc = "done"
    /\ batchResults' = [batchResults EXCEPT ![i] = [loading |-> FALSE, result |-> result]]
    /\ i' = i + 1
    /\ waited' = 0
    /\ bpc' = IF i < Len(batch) THEN "delay" ELSE "finished"
    /\ pc' = "idle"
    /\ query' = <<>>
    /\ expected' = NoExpected
    /\ bestItem' = <<>>
    /\ crossRefResult' = <<>>
    /\ ssResult' = <<>>
    /\ oaResult' = <<>>
    /\ result' = <<>>
    /\ requests' = <<>>
    /\ inflight' = {}
    /\ answer' = <<>>
    /\ UNCHANGED <<batch, verified, fnVars, uiVars>>

\* The timer of the pause fires: the loop checks the entry i
DelayElapses ==
    /\ bpc = "delay"
    /\ waited' = waited + INTER_ITEM_DELAY
    /\ verified' = Append(verified, [item |-> i, waited |-> waited + INTER_ITEM_DELAY])
    /\ bpc' = "checking"
    /\ Invoke(batch[i])
    /\ UNCHANGED <<batch, i, batchResults, fnVars, uiVars>>

\* checkWithFallback rejects: the loop has no handler, so handleBatchCheck
\* rejects too and the entries not yet checked keep loading
CheckThrows ==
    /\ bpc = "checking"
    /\ pc = "threw"
    /\ bpc' = "aborted"
    /\ UNCHANGED <<callVars, batch, i, batchResults, waited, verified, fnVars, uiVars>>

BatchNext ==
    \/ \E b \in Batches : HandleBatchCheck(b)
    \/ \E response \in BatchCrossRefResponses : CrossRefSettles(response)
    \/ \E response \in BatchSemanticScholarResponses : SemanticScholarSettles(response)
    \/ \E response \in BatchOpenAlexResponses : OpenAlexSettles(response)
    \/ CheckReturns
    \/ DelayElapses
    \/ CheckThrows

BatchSpec == Init /\ [][BatchNext]_vars

\* ------------------------------------------- functions applied on their own

\* The longest string given to calculateSimilarity
MaxLen == 3

\* The characters of these strings: letters in both cases and punctuation
SimChars == {"a", "A", "b", "!"}

SimStrings == UNION { [1..n -> SimChars] : n \in 0..MaxLen }

\* The inputs of the year matching of batch mode: the expected year and
\* journal of an entry, the year and journal of the CrossRef work, and the
\* title similarity
YearInputs ==
    { [expected |-> [title |-> Undefined, authors |-> Undefined, journal |-> j, year |-> y],
       resultYear |-> ry, resultJournal |-> rj, titleSim |-> t] :
          j \in {Undefined, <<"a", "r", "X", "i", "v">>, <<"A", "I", " ", "J", "o", "u", "r", "n", "a", "l">>},
          y \in {Undefined, <<"2", "0", "2", "0">>, <<"2", "0", "2", "0", "a">>, <<"s", "o", "o", "n">>},
          ry \in {<<>>} \cup {NumToString(n) : n \in 2018..2022},
          rj \in {<<>>, <<"a", "r", "X", "i", "v">>, <<"A", "I", " ", "J", "o", "u", "r", "n", "a", "l">>},
          t \in {80, 81} }

\* CrossRef works with several authors
CoauthoredItems == {
    [title |-> <<"D", "e", "e", "p", " ", "N", "e", "t", "s">>, author |-> << [family |-> <<"S", "m", "i", "t", "h">>, given |-> <<"J", "o", "h", "n">>],
                                     [family |-> <<"D", "o", "e">>, given |-> <<"J", "a", "n", "e">>] >>,
     year |-> <<2021>>, journal |-> <<"A", "I", " ", "J", "o", "u", "r", "n", "a", "l">>, DOI |-> <<"1", "0", ".", "1", "/", "d", "n">>, URL |-> Undefined, score |-> <<9>>],
    [title |-> <<"D", "e", "e", "p", " ", "N", "e", "t", "s">>, author |-> << [family |-> <<"S", "m", "i", "t", "h">>, given |-> <<"J", "o", "h", "n">>],
                                     [family |-> <<"D", "o", "e">>, given |-> <<"J", "a", "n", "e">>],
                                     [family |-> <<"B", "a", "u", "d", "o">>, given |-> <<"P", "a", "t">>] >>,
     year |-> <<2020>>, journal |-> <<"A", "I", " ", "J", "o", "u", "r", "n", "a", "l">>, DOI |-> Undefined, URL |-> <<"h", "t", "t", "p", ":", "/", "/", "d", "n", ".", "o", "r", "g", "/", "1">>, score |-> <<8>>] }

\* OpenAlex works with several authors
CoauthoredWorks == {
    [id |-> <<"W", "5">>, title |-> <<"D", "e", "e", "p", " ", "N", "e", "t", "s">>, authors |-> << <<"J", "o", "h", "n", " ", "S", "m", "i", "t", "h">>, <<"J", "a", "n", "e", " ", "D", "o", "e">> >>,
     year |-> <<2021>>, journal |-> <<"A", "I", " ", "J", "o", "u", "r", "n", "a", "l">>, doi |-> <<"h", "t", "t", "p", "s", ":", "/", "/", "d", "o", "i", ".", "o", "r", "g", "/", "1", "0", ".", "1", "/", "d", "n">>] }

\* The works formatAPA is given, and the results of the two adapters that
\* formatSemanticScholarAPA and formatOpenAlexAPA are given
ApaItems == Items \cup CoauthoredItems

ApaPapers ==
    UNION { {r[k] : k \in DOMAIN r} :
            r \in {searchSemanticScholar(p.title, Undefined, [outcome |-> "ok", data |-> << p >>]) :
                       p \in Papers} }

ApaWorks ==
    UNION { {r[k] : k \in DOMAIN r} :
            r \in {searchOpenAlex(w.title, Undefined, [outcome |-> "ok", data |-> << w >>]) :
                       w \in Works \cup CoauthoredWorks} }

\* The calls and the CrossRef works of best-match selection: the calls of a
\* parsed entry, and quick checks of a title and a year, one with a misspelt
\* title; the works on deep nets, two works of the year 2020 whose titles are
\* near the query and near the title Deep Nets, and a work with an author of a
\* family name of two letters
SelectionCalls ==
    {c \in Calls : c.expected # NoExpected} \cup { [query |-> <<"D", "e", "e", "p", " ", "S", "e", "a", " ", "N", "e", "t", "s", " ", "2", "0", "2", "0">>, expected |-> NoExpected],
                 [query |-> <<"D", "e", "e", "p", " ", "N", "e", "t", " ", "2", "0", "2", "0">>, expected |-> NoExpected] }

SelectionItems ==
    {item \in Items : Includes(item.title, <<"D", "e", "e", "p">>)} \cup {
        [title |-> <<"D", "e", "e", "p", " ", "S", "e", "a", " ", "N", "e", "s", "t", " ", "2", "0", "2", "0">>, author |-> <<>>, year |-> <<2020>>, journal |-> Undefined,
         DOI |-> Undefined, URL |-> Undefined, score |-> <<5>>],
        [title |-> <<"D", "e", "e", "p", " ", "N", "e", "t", " ", "T", "h", "e", "o", "r", "y">>, author |-> <<>>, year |-> <<2020>>, journal |-> <<"a", "r", "X", "i", "v">>,
         DOI |-> Undefined, URL |-> Undefined, score |-> <<4>>],
        [title |-> <<"D", "e", "e", "p", " ", "N", "e", "t", "s">>, author |-> << [family |-> <<"S", "m", "i", "t", "h">>, given |-> <<"J", "o", "h", "n">>],
                                        [family |-> <<"L", "i">>, given |-> <<"W", "e", "i">>] >>,
         year |-> <<2020>>, journal |-> <<"A", "I", " ", "J", "o", "u", "r", "n", "a", "l">>, DOI |-> Undefined, URL |-> Undefined,
         score |-> <<3>>] }

SelectionInputs ==
    { [query |-> c.query, expected |-> c.expected, items |-> l] :
          c \in SelectionCalls, l \in ListsOf(SelectionItems) \ {<<>>} }

\* A function is about to be applied to its arguments
FnInit ==
    /\ CallIdle
    /\ BatchIdle
    /\ UiIdle
    /\ out = <<>>
    /\ \/ fn = "calculateSimilarity" /\ args \in SimStrings \X SimStrings
       \/ fn = "yearMatching" /\ args \in YearInputs
       \/ fn = "formatAPA" /\ args \in ApaItems
       \/ fn = "formatSemanticScholarAPA" /\ args \in ApaPapers
       \/ fn = "formatOpenAlexAPA" /\ args \in ApaWorks
       \/ fn = "checkReference" /\ args \in SelectionInputs

\* The function fn returns value
Returns(name, value) ==
    /\ fn = name
    /\ out = <<>>
    /\ out' = << value >>
    /\ UNCHANGED <<callVars, batchVars, fn, args, uiVars>>

ApplyCalculateSimilarity ==
    fn = "calculateSimilarity" /\ Returns(fn, calculateSimilarity(args[1], args[2]))

ApplyYearMatching ==
    fn = "yearMatching"
    /\ Returns(fn, StructuredYear(args.expected, args.resultYear, args.resultJournal,
                                  args.titleSim))

ApplyFormatAPA ==
    fn = "formatAPA" /\ Returns(fn, formatAPA(args))

\* The formatters of the secondary sources raise a TypeError on an author
\* without a name
ApplyFormatSemanticScholarAPA ==
    fn = "formatSemanticScholarAPA"
    /\ Returns(fn, IF NamesThrow(args.authors) THEN "TypeError"
                   ELSE formatSemanticScholarAPA(args))

ApplyFormatOpenAlexAPA ==
    fn = "formatOpenAlexAPA"
    /\ Returns(fn, IF NamesThrow(args.authors) THEN "TypeError" ELSE formatOpenAlexAPA(args))

\* checkReference on a CrossRef answer of at least one work
ApplyCheckReference ==
    fn = "checkReference"
    /\ Returns(fn, checkReference(args.query, args.expected,
                                  [outcome |-> "ok", items |-> args.items]))

FnNext ==
    \/ ApplyCalculateSimilarity
    \/ ApplyYearMatching
    \/ ApplyFormatAPA
    \/ ApplyFormatSemanticScholarAPA
    \/ ApplyFormatOpenAlexAPA
    \/ ApplyCheckReference

FnSpec == FnInit /\ [][FnNext]_vars

\* ------------------------------------------------- the handlers of App

\* The largest number of handler calls in one run of App
MaxRuns == 3

\* The work of the application outside App stands still
CoreIdle == UNCHANGED <<callVars, batchVars, fnVars>>

\* handleQuickCheck on a text that is not empty once cleaned: the batch page and
\* its cards go, the quick card loads, and the handler awaits checkWithFallback
handleQuickCheck ==
    /\ runs < MaxRuns
    /\ runs' = runs + 1
    /\ lastQuick' = runs + 1
    /\ showBatchView' = FALSE
    /\ batchResultsState' = <<>>
    /\ loadingQuick' = TRUE
    /\ quickResult' = <<>>
    /\ quickChecks' = quickChecks \cup {runs + 1}
    /\ UNCHANGED <<loops, lastBatch>>
    /\ CoreIdle

\* The Quick Check button is on the main page, disabled while loadingQuick
QuickCheckClicked ==
    /\ ~showBatchView
    /\ ~loadingQuick
    /\ handleQuickCheck

\* What the clipboard holds: nothing, or a reference
ClipboardTexts == {<<>>, <<"D", "e", "e", "p">>}

\* The 'trigger-check' event of the main process: the listener calls
\* handleQuickCheck on the text of the clipboard when it has one, whatever App
\* shows
TriggerCheck(text) ==
    /\ Truthy(text)
    /\ handleQuickCheck

\* checkWithFallback returns to the call c of handleQuickCheck: the quick card
\* shows the result and stops loading
QuickCheckReturns(c) ==
    /\ c \in quickChecks
    /\ quickChecks' = quickChecks \ {c}
    /\ quickResult' = <<c>>
    /\ loadingQuick' = FALSE
    /\ UNCHANGED <<showBatchView, batchResultsState, loops, runs, lastQuick, lastBatch>>
    /\ CoreIdle

\* checkWithFallback rejects: handleQuickCheck has no handler and rejects too
QuickCheckRejects(c) ==
    /\ c \in quickChecks
    /\ quickChecks' = quickChecks \ {c}
    /\ UNCHANGED <<showBatchView, loadingQuick, quickResult, batchResultsState, loops, runs,
                   lastQuick, lastBatch>>
    /\ CoreIdle

\* initialResults of the batch b of n entries: every card loading
initialResults(b, n) == [k \in 1..n |-> [batch |-> b, item |-> k, loading |-> TRUE]]

\* some(r => r.loading) of the cards
SomeLoading(cards) == \E k \in 1..Len(cards) : cards[k].loading

\* The loops with the loop b put at l
WithLoop(b, l) == [c \in DOMAIN loops \cup {b} |-> IF c = b THEN l ELSE loops[c]]

\* The loops without the loop b, which has ended
WithoutLoop(b) == [c \in DOMAIN loops \ {b} |-> loops[c]]

\* handleBatchCheck on an input of n entries: the quick card goes, the batch
\* page shows every entry as loading, and the loop awaits the check of the first
handleBatchCheck(n) ==
    /\ runs < MaxRuns
    /\ runs' = runs + 1
    /\ lastBatch' = runs + 1
    /\ quickResult' = <<>>
    /\ showBatchView' = TRUE
    /\ batchResultsState' = initialResults(runs + 1, n)
    /\ loops' = IF n = 0
                THEN loops
                ELSE WithLoop(runs + 1, [newResults |-> initialResults(runs + 1, n),
                                         i |-> 1,
                                         awaits |-> "check"])
    /\ UNCHANGED <<loadingQuick, quickChecks, lastQuick>>
    /\ CoreIdle

\* The Batch Check button is on the main page, disabled while a card of
\* batchResults is loading
BatchCheckClicked(n) ==
    /\ ~showBatchView
    /\ ~SomeLoading(batchResultsState)
    /\ handleBatchCheck(n)

\* checkWithFallback returns to the loop b: its entry stops loading in
\* newResults, batchResults becomes a copy of newResults, and the loop awaits
\* the timer, or ends after the last entry
ItemChecked(b, loop, checked) ==
    /\ loop.awaits = "check"
    /\ batchResultsState' = checked
    /\ loops' = IF loop.i < Len(loop.newResults)
                THEN WithLoop(b, [newResults |-> checked, i |-> loop.i + 1, awaits |-> "timer"])
                ELSE WithoutLoop(b)
    /\ UNCHANGED <<showBatchView, loadingQuick, quickResult, quickChecks, runs, lastQuick,
                   lastBatch>>
    /\ CoreIdle

\* The timer of the loop b fires: it awaits the check of its entry i
TimerFires(b) ==
    /\ loops[b].awaits = "timer"
    /\ loops' = WithLoop(b, [loops[b] EXCEPT !.awaits = "check"])
    /\ UNCHANGED <<showBatchView, loadingQuick, quickResult, batchResultsState, quickChecks,
                   runs, lastQuick, lastBatch>>
    /\ CoreIdle

\* checkWithFallback rejects in the loop b: handleBatchCheck rejects, its loop
\* ends and batchResults stays
ItemCheckRejects(b) ==
    /\ loops[b].awaits = "check"
    /\ loops' = WithoutLoop(b)
    /\ UNCHANGED <<showBatchView, loadingQuick, quickResult, batchResultsState, quickChecks,
                   runs, lastQuick, lastBatch>>
    /\ CoreIdle

\* The Back button of the batch page
BackClicked ==
    /\ showBatchView
    /\ showBatchView' = FALSE
    /\ batchResultsState' = <<>>
    /\ UNCHANGED <<loadingQuick, quickResult, quickChecks, loops, runs, lastQuick, lastBatch>>
    /\ CoreIdle

UiNext ==
    \/ QuickCheckClicked
    \/ \E text \in ClipboardTexts : TriggerCheck(text)
    \/ \E c \in quickChecks : QuickCheckReturns(c)
    \/ \E c \in quickChecks : QuickCheckRejects(c)
    \/ \E n \in 0..MaxBatch : BatchCheckClicked(n)
    \/ \E b \in DOMAIN loops :
           ItemChecked(b, loops[b],
                       [loops[b].newResults EXCEPT ![loops[b].i].loading = FALSE])
    \/ \E b \in DOMAIN loops : TimerFires(b)
    \/ \E b \in DOMAIN loops : ItemCheckRejects(b)
    \/ BackClicked

UiSpec == Init /\ [][UiNext]_vars

\* ------------------------------------------------------------ the claims

\* The results checkReference and checkWithFallback have returned
Returned ==
    {crossRefResult[k] : k \in DOMAIN crossRefResult} \cup {result[k] : k \in DOMAIN result}

\* checkWithFallback has returned a result
Done == pc = "done"

\* The title checkWithFallback searches the secondary sources for
Title == OrElse(expected.title, query)

\* The candidate of a secondary source (<<>> when it has none) has a title
\* similarity of at least 55
Qualifies(candidate) ==
    candidate # <<>> /\ calculateSimilarity(Title, candidate[1].title) >= 55

\* The authors of the candidate of a secondary source fail to match the expected
\* authors and match the authors CrossRef found
Confirms(candidate) ==
    /\ candidate # <<>>
    /\ ~NamesThrow(candidate[1].authors)
    /\ ConfirmsDifferentAuthors(expected, crossRefResult[1], candidate[1].authors)

\* The authors of the candidate of a secondary source match the expected authors
\* and the authors CrossRef found do not
MatchesExpectedBetter(candidate) ==
    /\ candidate # <<>>
    /\ Truthy(expected.authors)
    /\ ~NamesThrow(candidate[1].authors)
    /\ authorsMatch(expectedAuthorList(expected.authors), candidate[1].authors)
    /\ ~authorsMatch(expectedAuthorList(expected.authors),
                     SplitWith(OrElse(crossRefResult[1].authors, <<>>), SepCommaSpace))

\* CrossRef has a year, version or preprint issue and the candidate of a secondary
\* source has the expected year
CorrectsYear(candidate) ==
    /\ candidate # <<>>
    /\ HasVersionIssue(crossRefResult[1].issues)
    /\ HasExpectedYear(expected.year, candidate[1].year)

\* r carries the citation apa / bibtex of the secondary source as its correction
Corrected(r, apa, bibtex, source) ==
    r.correctedApa = apa /\ r.correctedBibtex = bibtex /\ r.fallbackSource = source

\* r carries no correction
Uncorrected(r) ==
    r.correctedApa = Undefined /\ r.correctedBibtex = Undefined /\ r.fallbackSource = "none"

\* r has the output of the CrossRef result p: all but the correction and the confidence
KeepsPrimary(r, p) ==
    r = [p EXCEPT !.correctedApa = r.correctedApa, !.correctedBibtex = r.correctedBibtex,
                  !.fallbackSource = r.fallbackSource, !.matchConfidence = r.matchConfidence]

\* C1: every result returned by checkReference or checkWithFallback has its
\* confidence and its title, author and journal scores within 0..100.
C1_ScoresWithinRange ==
    \A r \in Returned :
        /\ r.matchConfidence >= 0 /\ r.matchConfidence <= Pts(100)
        /\ r.titleMatchScore >= 0 /\ r.titleMatchScore <= 100
        /\ r.authorMatchScore >= 0 /\ r.authorMatchScore <= 100
        /\ r.journalMatchScore >= 0 /\ r.journalMatchScore <= 100

\* C2 as stated: every returned result with exists = false has all four scores
\* equal to 0 and no bibliographic field set.
C2_NotFoundIsZeroed ==
    \A r \in Returned :
        ~r.exists =>
            /\ r.titleMatchScore = 0 /\ r.authorMatchScore = 0
            /\ r.journalMatchScore = 0 /\ r.matchConfidence = 0
            /\ \A f \in {"title", "authors", "year", "journal", "url", "doi"} : r[f] = Undefined

\* C2 as amended: every returned result with exists = false has its author and
\* journal scores and its confidence equal to 0 and no bibliographic field set;
\* its title score is below 55: the title similarity of the rejected CrossRef
\* candidate after the acceptance gate, the larger of that and the title
\* similarity of the OpenAlex candidate after the OpenAlex below-threshold
\* branch, and 0 otherwise.
C2_NotFoundKeepsTitleScore ==
    /\ \A r \in Returned :
          ~r.exists =>
              /\ r.titleMatchScore >= 0 /\ r.titleMatchScore < 55
              /\ r.authorMatchScore = 0 /\ r.journalMatchScore = 0 /\ r.matchConfidence = 0
              /\ \A f \in {"title", "authors", "year", "journal", "url", "doi"} :
                    r[f] = Undefined
    /\ (crossRefResult # <<>> /\ ~crossRefResult[1].exists) =>
          crossRefResult[1].titleMatchScore =
              IF bestItem = <<>> THEN 0
              ELSE TitleSimOf(query, expected, ItemTitle(bestItem[1]))
    /\ (Done /\ ~result[1].exists) =>
          result[1].titleMatchScore =
              IF oaResult = <<>> THEN 0
              ELSE Max2(crossRefResult[1].titleMatchScore,
                        calculateSimilarity(Title, oaResult[1].title))

\* C2 witness: checkWithFallback has returned a not-found result whose title
\* score is not 0 (the OpenAlex below-threshold branch).
C2_Witness ==
    Done /\ ~result[1].exists /\ oaResult # <<>> /\ result[1].titleMatchScore > 0

\* C3: when the title similarity of the CrossRef candidate checkReference selected
\* is below 55, its result has exists = false, source NotFound and the issue that
\* no sufficiently similar result was found; a result with exists = true and
\* source CrossRef has a title score of at least 55.
C3_TitleGate ==
    crossRefResult # <<>> =>
        /\ (bestItem # <<>> /\ TitleSimOf(query, expected, ItemTitle(bestItem[1])) < 55) =>
              /\ ~crossRefResult[1].exists
              /\ crossRefResult[1].source = "NotFound"
              /\ InSeq(Txt.IssueNoSimilarCrossRef, crossRefResult[1].issues)
        /\ (crossRefResult[1].exists /\ crossRefResult[1].source = "CrossRef") =>
              crossRefResult[1].titleMatchScore >= 55

\* C3 witness: checkReference selected a candidate with a title similarity that is
\* below 55 and not 0, and has returned.
C3_Witness ==
    /\ crossRefResult # <<>>
    /\ bestItem # <<>>
    /\ TitleSimOf(query, expected, ItemTitle(bestItem[1])) \in 1..54

\* C4: a secondary source is requested if and only if the CrossRef result is not
\* found, or has a confidence below 70, or has issues; otherwise the CrossRef
\* result is returned unchanged.
C4_FallbackIffNeeded ==
    LET secondary == InSeq("SemanticScholar", requests) \/ InSeq("OpenAlex", requests)
    IN  IF crossRefResult = <<>> THEN ~secondary
        ELSE LET needed == \/ ~crossRefResult[1].exists
                           \/ crossRefResult[1].matchConfidence < Pts(70)
                           \/ Len(crossRefResult[1].issues) > 0
             IN  /\ secondary <=> needed
                 /\ ~needed => Done /\ result = crossRefResult

\* C4 witness: a secondary source was requested for a CrossRef result that exists
\* with a confidence of at least 70, because of its issues alone.
C4_Witness ==
    /\ crossRefResult # <<>>
    /\ crossRefResult[1].exists
    /\ crossRefResult[1].matchConfidence >= Pts(70)
    /\ Len(crossRefResult[1].issues) > 0
    /\ InSeq("SemanticScholar", requests)

\* C5: the requests of one call go to CrossRef, then Semantic Scholar, then
\* OpenAlex; CrossRef is requested first, a request is issued only once the one
\* before it has settled, and at most one request is outstanding.
C5_Sequential ==
    /\ \E n \in 0..3 : requests = SubSeq(<<"CrossRef", "SemanticScholar", "OpenAlex">>, 1, n)
    /\ pc # "idle" => requests # <<>> /\ requests[1] = "CrossRef"
    /\ Cardinality(inflight) <= 1
    /\ \A p \in inflight : requests[Len(requests)] = p
    /\ InSeq("OpenAlex", requests) =>
          InSeq("SemanticScholar", requests) /\ "SemanticScholar" \notin inflight

\* C5 witness: the request to OpenAlex is outstanding.
C5_Witness == inflight = {"OpenAlex"} /\ Len(requests) = 3

\* C6: when CrossRef found nothing and the candidate of a secondary source has a
\* title similarity of at least 55, the returned result exists, carries the fields
\* of that candidate and its source, and has a confidence computed from the title
\* similarity that is below 100; Semantic Scholar comes before OpenAlex.
C6_SecondaryBecomesResult ==
    (Done /\ ~crossRefResult[1].exists) =>
        /\ Qualifies(ssResult) =>
              LET paper == ssResult[1]
                  sim == calculateSimilarity(Title, paper.title)
                  r == result[1]
              IN  /\ r.exists /\ r.source = "SemanticScholar"
                  /\ ~InSeq("OpenAlex", requests)
                  /\ r.title = paper.title
                  /\ r.authors = Join(paper.authors, Txt.CommaSpace)
                  /\ r.year = (IF paper.year = <<>> THEN <<>> ELSE NumToString(paper.year[1]))
                  /\ r.journal = paper.venue /\ r.url = paper.url /\ r.doi = paper.DOI
                  /\ r.apa = formatSemanticScholarAPA(paper)
                  /\ r.bibtex = generateSemanticScholarBibTeX(paper)
                  /\ r.titleMatchScore = sim
                  /\ r.matchConfidence = Pts(Min2(95, sim + 10))
                  /\ r.matchConfidence < Pts(100)
        /\ (~Qualifies(ssResult) /\ Qualifies(oaResult)) =>
              LET work == oaResult[1]
                  sim == calculateSimilarity(Title, work.title)
                  r == result[1]
              IN  /\ r.exists /\ r.source = "OpenAlex"
                  /\ r.title = work.title
                  /\ r.authors = Join(work.authors, Txt.CommaSpace)
                  /\ r.year = (IF work.year = <<>> THEN <<>> ELSE NumToString(work.year[1]))
                  /\ r.journal = work.journal /\ r.url = work.url
                  /\ r.doi = (IF Truthy(work.doi) THEN work.doi ELSE Undefined)
                  /\ r.apa = formatOpenAlexAPA(work)
                  /\ r.bibtex = generateOpenAlexBibTeX(work)
                  /\ r.titleMatchScore = sim
                  /\ r.matchConfidence = Pts(Min2(90, sim + 5))
                  /\ r.matchConfidence < Pts(100)

\* C6 witness: CrossRef found nothing, the Semantic Scholar candidate has a title
\* similarity of at least 90, and checkWithFallback has returned.
C6_Witness ==
    /\ Done
    /\ ~crossRefResult[1].exists
    /\ Qualifies(ssResult)
    /\ calculateSimilarity(Title, ssResult[1].title) >= 90

\* C7: when CrossRef found nothing and neither secondary source has a candidate
\* with a title similarity of at least 55, the returned result has exists = false,
\* source NotFound and the issue that all sources were tried.
C7_AllSourcesExhausted ==
    (Done /\ ~crossRefResult[1].exists /\ ~Qualifies(ssResult) /\ ~Qualifies(oaResult)) =>
        /\ ~result[1].exists
        /\ result[1].source = "NotFound"
        /\ InSeq(Txt.IssueAllSources, result[1].issues)

\* C7 witness: CrossRef found nothing, both secondary sources had a candidate
\* below the threshold, and checkWithFallback has returned.
C7_Witness ==
    /\ Done
    /\ ~crossRefResult[1].exists
    /\ ssResult # <<>> /\ ~Qualifies(ssResult)
    /\ oaResult # <<>> /\ ~Qualifies(oaResult)

\* C8 as stated: when CrossRef found the reference and the authors of the
\* candidate of a secondary source fail to match the expected authors and match
\* the authors CrossRef found, the returned result carries no correctedApa,
\* correctedBibtex or fallbackSource.
C8_ConfirmedAuthorsNoCorrection ==
    (Done /\ crossRefResult[1].exists) =>
        /\ Confirms(ssResult) => Uncorrected(result[1])
        /\ Confirms(oaResult) => Uncorrected(result[1])

\* C8 as amended: in that case the returned result is the CrossRef result with
\* the citation of that secondary source attached as correctedApa and
\* correctedBibtex and with fallbackSource naming it; the fields of CrossRef and
\* the confidence are unchanged.
C8_ConfirmedAuthorsAttachCorrection ==
    (Done /\ crossRefResult[1].exists) =>
        /\ Confirms(ssResult) =>
              /\ Corrected(result[1], formatSemanticScholarAPA(ssResult[1]),
                           generateSemanticScholarBibTeX(ssResult[1]), "SemanticScholar")
              /\ KeepsPrimary(result[1], crossRefResult[1])
              /\ result[1].matchConfidence = crossRefResult[1].matchConfidence
        /\ Confirms(oaResult) =>
              /\ Corrected(result[1], formatOpenAlexAPA(oaResult[1]),
                           generateOpenAlexBibTeX(oaResult[1]), "OpenAlex")
              /\ KeepsPrimary(result[1], crossRefResult[1])
              /\ result[1].matchConfidence = crossRefResult[1].matchConfidence

\* C8 witness: CrossRef found the reference, the authors of the Semantic Scholar
\* candidate confirm the authors CrossRef found against the expected ones, and
\* checkWithFallback has returned.
C8_Witness == Done /\ crossRefResult[1].exists /\ Confirms(ssResult)

\* C9 as stated: when CrossRef found the reference and the authors of the
\* candidate of a secondary source match the expected authors better than the
\* authors CrossRef found, the output of CrossRef is replaced by that of the
\* secondary source and the corrected citation is recorded under its tag.
C9_SecondaryReplacesPrimary ==
    (Done /\ crossRefResult[1].exists) =>
        /\ MatchesExpectedBetter(ssResult) =>
              /\ result[1].apa = formatSemanticScholarAPA(ssResult[1])
              /\ result[1].title = ssResult[1].title
              /\ Corrected(result[1], formatSemanticScholarAPA(ssResult[1]),
                           generateSemanticScholarBibTeX(ssResult[1]), "SemanticScholar")
        /\ MatchesExpectedBetter(oaResult) =>
              /\ result[1].apa = formatOpenAlexAPA(oaResult[1])
              /\ result[1].title = oaResult[1].title
              /\ Corrected(result[1], formatOpenAlexAPA(oaResult[1]),
                           generateOpenAlexBibTeX(oaResult[1]), "OpenAlex")

\* C9 as amended: in that case the output of CrossRef is not replaced: the
\* returned result keeps the fields, citation, scores, issues and source of
\* CrossRef, and the citation of that secondary source is recorded under its tag
\* exactly when CrossRef has a year, version or preprint issue and the year of
\* that secondary source is the expected year.
C9_PrimaryKept ==
    (Done /\ crossRefResult[1].exists) =>
        /\ MatchesExpectedBetter(ssResult) =>
              /\ KeepsPrimary(result[1], crossRefResult[1])
              /\ result[1].fallbackSource = "SemanticScholar" <=> CorrectsYear(ssResult)
              /\ CorrectsYear(ssResult) =>
                    Corrected(result[1], formatSemanticScholarAPA(ssResult[1]),
                              generateSemanticScholarBibTeX(ssResult[1]), "SemanticScholar")
        /\ MatchesExpectedBetter(oaResult) =>
              /\ KeepsPrimary(result[1], crossRefResult[1])
              /\ result[1].fallbackSource = "OpenAlex" <=> CorrectsYear(oaResult)
              /\ CorrectsYear(oaResult) =>
                    Corrected(result[1], formatOpenAlexAPA(oaResult[1]),
                              generateOpenAlexBibTeX(oaResult[1]), "OpenAlex")

\* C9 witness: CrossRef found the reference, the authors of the Semantic Scholar
\* candidate match the expected authors better, its citation was recorded, and
\* checkWithFallback has returned.
C9_Witness ==
    /\ Done
    /\ crossRefResult[1].exists
    /\ MatchesExpectedBetter(ssResult)
    /\ result[1].fallbackSource = "SemanticScholar"

\* C10 as stated: when CrossRef found the reference with a year, version or
\* preprint issue and a consulted secondary source has the expected year, the
\* returned result has the citation of that source attached under its tag, and
\* its confidence is min(100, confidence of CrossRef + 15).
C10_YearCorroborationBoosts ==
    (Done /\ crossRefResult[1].exists) =>
        /\ CorrectsYear(ssResult) =>
              /\ Corrected(result[1], formatSemanticScholarAPA(ssResult[1]),
                           generateSemanticScholarBibTeX(ssResult[1]), "SemanticScholar")
              /\ result[1].matchConfidence =
                     Min2(Pts(100), crossRefResult[1].matchConfidence + Pts(15))
        /\ CorrectsYear(oaResult) =>
              /\ Corrected(result[1], formatOpenAlexAPA(oaResult[1]),
                           generateOpenAlexBibTeX(oaResult[1]), "OpenAlex")
              /\ result[1].matchConfidence =
                     Min2(Pts(100), crossRefResult[1].matchConfidence + Pts(15))

\* C10 as amended: in that case the returned result has the citation of that
\* source attached under its tag; its confidence is min(100, confidence of
\* CrossRef + 15), except when the authors of that source fail to match the
\* expected authors and match the authors CrossRef found: that check comes
\* first, and the confidence of CrossRef is then left as it is.
C10_YearCorroborationAfterAuthors ==
    (Done /\ crossRefResult[1].exists) =>
        /\ CorrectsYear(ssResult) =>
              /\ Corrected(result[1], formatSemanticScholarAPA(ssResult[1]),
                           generateSemanticScholarBibTeX(ssResult[1]), "SemanticScholar")
              /\ result[1].matchConfidence =
                     IF Confirms(ssResult) THEN crossRefResult[1].matchConfidence
                     ELSE Min2(Pts(100), crossRefResult[1].matchConfidence + Pts(15))
        /\ CorrectsYear(oaResult) =>
              /\ Corrected(result[1], formatOpenAlexAPA(oaResult[1]),
                           generateOpenAlexBibTeX(oaResult[1]), "OpenAlex")
              /\ result[1].matchConfidence =
                     IF Confirms(oaResult) THEN crossRefResult[1].matchConfidence
                     ELSE Min2(Pts(100), crossRefResult[1].matchConfidence + Pts(15))

\* C10 witness: CrossRef found the reference with a year issue, the Semantic
\* Scholar candidate has the expected year and does not confirm other authors,
\* and checkWithFallback has returned a result with a higher confidence.
C10_Witness ==
    /\ Done
    /\ crossRefResult[1].exists
    /\ CorrectsYear(ssResult)
    /\ ~Confirms(ssResult)
    /\ result[1].matchConfidence > crossRefResult[1].matchConfidence

\* C11: the fetch of a source that ends with a network error, a status that
\* is not ok, or no record yields no candidate (a not-found result for
\* CrossRef, null for Semantic Scholar and OpenAlex) and checkWithFallback goes
\* on: to the next source, or to its return after the last one.  It raises only
\* with a candidate of a secondary source at hand.
C11_AdaptersNeverRaise ==
    /\ (answer # <<>> /\ answer[1].kind \in Failures \cup {"empty"}) =>
          /\ pc # "threw"
          /\ answer[1].provider = "CrossRef" =>
                /\ ~crossRefResult[1].exists /\ crossRefResult[1].source = "NotFound"
                /\ pc = "semanticscholar" /\ inflight = {"SemanticScholar"}
          /\ answer[1].provider = "SemanticScholar" =>
                /\ ssResult = <<>>
                /\ pc = "openalex" /\ inflight = {"OpenAlex"}
          /\ answer[1].provider = "OpenAlex" =>
                /\ oaResult = <<>>
                /\ pc = "done" /\ result # <<>>
    /\ pc = "threw" =>
          /\ answer[1].kind = "records"
          /\ answer[1].provider # "CrossRef"
          /\ answer[1].provider = "SemanticScholar" => ssResult # <<>>
          /\ answer[1].provider = "OpenAlex" => oaResult # <<>>

\* C11 witness: Semantic Scholar was rate limited after CrossRef had failed, and
\* the request to OpenAlex is outstanding.
C11_Witness ==
    /\ answer = << [provider |-> "SemanticScholar", kind |-> "httpError"] >>
    /\ ~crossRefResult[1].exists
    /\ inflight = {"OpenAlex"}

\* C12: checkWithFallback returns a result and never raises, whatever the
\* sources answer, so handleBatchCheck never stops before the last entry of
\* its batch has been checked.
C12_FailureNeverAbortsBatch ==
    /\ pc # "threw"
    /\ bpc # "aborted"

\* C20: handleBatchCheck checks the entries of a batch in their order, each
\* once; the check of an entry starts only after the check of the entry before
\* it has returned and 800 ms have passed; at most one check is under way; and
\* when the loop has ended every entry has been checked.
C20_BoundedSequentialLoop ==
    /\ Len(verified) <= Len(batch)
    /\ \A k \in DOMAIN verified :
          /\ verified[k].item = k
          /\ k > 1 => /\ verified[k].waited = 800
                      /\ ~batchResults[k - 1].loading
    /\ Cardinality({k \in DOMAIN verified : batchResults[k].loading}) <= 1
    /\ bpc \in {"finished", "aborted"} =>
          /\ Len(verified) = Len(batch)
          /\ \A k \in DOMAIN batchResults : ~batchResults[k].loading

\* The records of an answer all have a title: they lack at most their authors,
\* their venue or their DOI
LackAtMostAuthorsVenueDoi(records) ==
    Len(records) > 0 /\ \A k \in DOMAIN records : records[k].title # Undefined

\* C13: when a source answers with records that lack authors, venue or DOI, its
\* adapter still returns a candidate, with an empty value or a placeholder for
\* what is missing: checkReference scores the work it selected,
\* searchSemanticScholar and searchOpenAlex return the record they selected.
C13_MissingFieldsTolerated ==
    [][/\ \A response \in CrossRefResponses :
             (CrossRefSettles(response) /\ response.outcome = "ok"
                 /\ LackAtMostAuthorsVenueDoi(response.items)) =>
                   /\ bestItem' # <<>>
                   /\ \/ crossRefResult'[1].exists
                      \/ InSeq(Txt.IssueNoSimilarCrossRef, crossRefResult'[1].issues)
       /\ \A response \in SemanticScholarResponses :
             (SemanticScholarSettles(response) /\ response.outcome = "ok"
                 /\ LackAtMostAuthorsVenueDoi(response.data)) =>
                   /\ ssResult' # <<>>
                   /\ ssResult'[1].venue # Undefined
       /\ \A response \in OpenAlexResponses :
             (OpenAlexSettles(response) /\ response.outcome = "ok"
                 /\ LackAtMostAuthorsVenueDoi(response.data)) =>
                   /\ oaResult' # <<>>
                   /\ oaResult'[1].journal # Undefined
      ]_vars

\* calculateSimilarity has returned
SimilarityReturned == fn = "calculateSimilarity" /\ out # <<>>

\* C14 as stated: for all strings s, calculateSimilarity(s, s) = 100, and for
\* every non-empty s, calculateSimilarity(s, "") = calculateSimilarity("", s) = 0.
C14_IdentityAndEmpty ==
    SimilarityReturned =>
        /\ args[1] = args[2] => out[1] = 100
        /\ (args[1] = <<>> /\ args[2] # <<>>) \/ (args[1] # <<>> /\ args[2] = <<>>)
               => out[1] = 0

\* C14 amended: for all non-empty strings s, calculateSimilarity(s, s) = 100,
\* and for every string s, the empty one included, calculateSimilarity(s, "") =
\* calculateSimilarity("", s) = 0.
C14_IdentityOfNonEmptyAndEmpty ==
    SimilarityReturned =>
        /\ (args[1] = args[2] /\ args[1] # <<>>) => out[1] = 100
        /\ (args[1] = <<>> \/ args[2] = <<>>) => out[1] = 0

\* A string of letters and punctuation has been compared with itself
C14_Witness ==
    /\ SimilarityReturned
    /\ args = << <<"A", "!", "b">>, <<"A", "!", "b">> >>
    /\ out = << 100 >>

\* The least number of insertions, deletions and substitutions of one
\* character that turn a into b
RECURSIVE EditDistance(_, _)
EditDistance(a, b) ==
    IF a = <<>> THEN Len(b)
    ELSE IF b = <<>> THEN Len(a)
    ELSE IF Head(a) = Head(b) THEN EditDistance(Tail(a), Tail(b))
    ELSE 1 + Min2(EditDistance(Tail(a), Tail(b)),
                  Min2(EditDistance(Tail(a), b), EditDistance(a, Tail(b))))

\* v is the integer nearest to 100 * (1 - distance / maxLen), halves upwards
IsRoundedShare(v, distance, maxLen) ==
    /\ 2 * maxLen * v <= 200 * (maxLen - distance) + maxLen
    /\ 200 * (maxLen - distance) + maxLen < 2 * maxLen * (v + 1)

\* C15: calculateSimilarity is symmetric and bounded: for all strings a and b,
\* calculateSimilarity(a, b) = calculateSimilarity(b, a), and the value is an
\* integer in 0..100 equal to round((1 - editDistance/maxLen) * 100) of the
\* normalized strings when they differ.
C15_SymmetricBoundedSimilarity ==
    SimilarityReturned =>
        /\ out[1] = calculateSimilarity(args[2], args[1])
        /\ out[1] \in 0..100
        /\ \A a \in {StripPunct(ToLowerCase(args[1]))}, b \in {StripPunct(ToLowerCase(args[2]))} :
               a # b => IsRoundedShare(out[1], EditDistance(a, b), Max2(Len(a), Len(b)))

\* Two strings one insertion apart have been compared: two thirds, rounded up
C15_Witness ==
    /\ SimilarityReturned
    /\ args = << <<"A", "b">>, <<"a", "a", "b">> >>
    /\ out = << 67 >>

\* checkReference has scored the work bestItem for a free-text query
FreeTextScored == crossRefResult # <<>> /\ bestItem # <<>> /\ expected = NoExpected

\* The words of a normalized text
WordsOf(text) == SplitWith(normalize(text), LAMBDA t, k : RunLen(t, k, IsSpaceChar))

\* The capitalized tokens of the query whose normalized form has at least 3
\* characters, each with its normalized form
NameTokens(q) ==
    { <<t, normalize(t)>> : t \in {tok \in {SplitWith(q, SepToken)[k] :
                                                k \in DOMAIN SplitWith(q, SepToken)} :
                                      At(tok, 1) \in UpperSet /\ Len(normalize(tok)) >= 3} }

\* The family names of the authors of a CrossRef work, normalized
FamiliesOf(item) ==
    { normalize(OrElse(item.author[k].family, <<>>)) : k \in DOMAIN item.author }

\* The query q cites the work item in full and names nobody else: title,
\* every family name, a word of at least 4 letters of the journal and the
\* year are in the query, and every capitalized name token belongs to the
\* title, the journal or a family name
CitesInFull(q, item) ==
    /\ Includes(normalize(q), normalize(ItemTitle(item)))
    /\ \A k \in DOMAIN item.author : item.author[k].family # Undefined
    /\ \A f \in FamiliesOf(item) : Includes(normalize(q), f)
    /\ \E k \in DOMAIN WordsOf(ItemJournal(item)) :
          /\ Len(WordsOf(ItemJournal(item))[k]) >= 4
          /\ Includes(normalize(q), WordsOf(ItemJournal(item))[k])
    /\ ItemYear(item) # <<>>
    /\ InSeq(ItemYear(item), YearsInQuery(q))
    /\ \A t \in NameTokens(q) :
          \/ Includes(normalize(ItemTitle(item)), t[2])
          \/ Includes(normalize(ItemJournal(item)), t[2])
          \/ \E f \in FamiliesOf(item) : Includes(f, t[2]) \/ (Len(f) > 2 /\ Includes(t[2], f))

\* C16: in free-text mode, for a candidate whose normalized title is contained
\* in the query, whose author family names all appear in the query, whose
\* journal has a significant word in the query and whose year appears in the
\* query, and a query with no other capitalized name tokens, checkReference
\* yields titleMatchScore >= 95, authorMatchScore = 100, journalMatchScore =
\* 100, matchConfidence >= 90 and an empty issues list.
C16_FullCitationScoresHigh ==
    (FreeTextScored /\ CitesInFull(query, bestItem[1])) =>
        /\ crossRefResult[1].exists
        /\ crossRefResult[1].titleMatchScore >= 95
        /\ crossRefResult[1].authorMatchScore = 100
        /\ crossRefResult[1].journalMatchScore = 100
        /\ crossRefResult[1].matchConfidence >= Pts(90)
        /\ crossRefResult[1].issues = <<>>

\* "Smith J. Deep Nets. AI Journal. 2021" has been checked against the work
\* Deep Nets of Smith in AI Journal, 2021
C16_Witness ==
    /\ FreeTextScored
    /\ CitesInFull(query, bestItem[1])
    /\ Includes(query, ItemJournal(bestItem[1]))
    /\ crossRefResult[1].matchConfidence = Pts(100)

\* The name token t of the query is not in the work item: it matches no family
\* name and occurs neither in the title, nor in the journal, nor in the year
Unlisted(t, item) ==
    /\ \A f \in FamiliesOf(item) : Len(f) > 2 => ~Includes(f, t[2]) /\ ~Includes(t[2], f)
    /\ ~Includes(normalize(ItemTitle(item)), t[2])
    /\ ~Includes(normalize(ItemJournal(item)), t[2])
    /\ ~Includes(ItemYear(item), t[1])

\* The result r flags the name token t: an issue names it and the author score
\* is below 100
Flags(r, t) ==
    /\ \E k \in DOMAIN r.issues :
          /\ ExactAt(r.issues[k], 1, Txt.IssuePossibleFake)
          /\ Includes(r.issues[k], t[1])
    /\ r.authorMatchScore < 100

\* C17 as stated: in free-text mode, whenever the query names a co-author who
\* is not in the accepted candidate's author list (a capitalized name of at
\* least 3 letters that matches no candidate family name and does not occur in
\* the candidate's title, journal or year), the issues list contains an entry
\* naming that author and authorMatchScore < 100.
C17_FakeCoauthorFlagged ==
    (FreeTextScored /\ crossRefResult[1].exists) =>
        \A t \in NameTokens(query) :
            Unlisted(t, bestItem[1]) => Flags(crossRefResult[1], t)

\* The unlisted name tokens that are no stop word and do not begin with the
\* first letter of the given name of an author of the work
Suspects(q, item) ==
    { t \in NameTokens(q) :
        /\ Unlisted(t, item)
        /\ ~InSeq(t[2], stopWords)
        /\ \A k \in DOMAIN item.author :
              item.author[k].given # Undefined
                  => ~firstLetterMatches(t[1], item.author[k].given) }

\* C17 amended: the same, for a name that is also no stop word and does not
\* share its first letter with the given name of a candidate author, and when
\* the query holds at most 5 distinct such names.
C17_FakeCoauthorFlaggedUnlessInitial ==
    (FreeTextScored /\ crossRefResult[1].exists) =>
        (Cardinality({t[1] : t \in Suspects(query, bestItem[1])}) <= 5
            => \A t \in Suspects(query, bestItem[1]) : Flags(crossRefResult[1], t))

\* "Smith J, Baudo P. Deep Nets. 2020" has been checked against a work of
\* Smith alone: Baudo is flagged and the author score is 90
C17_Witness ==
    /\ FreeTextScored
    /\ crossRefResult[1].exists
    /\ \E t \in Suspects(query, bestItem[1]) :
          t[1] = <<"B", "a", "u", "d", "o">> /\ Flags(crossRefResult[1], t)
    /\ crossRefResult[1].authorMatchScore = 90

\* The year matching of batch mode has returned, for an entry and a work
\* that both have a year
YearsCompared ==
    /\ fn = "yearMatching"
    /\ out # <<>>
    /\ Truthy(args.expected.year)
    /\ args.resultYear # <<>>

\* The years differ by one of the numbers in by
YearsDifferBy(by) ==
    \E d \in {YearDiff(args.expected.year, args.resultYear)} : ~d.nan /\ d.val \in by

\* The case of the version-difference leniency
VersionDifference ==
    \/ /\ YearsDifferBy({1, 2})
       /\ isPreprint(OrElse(args.expected.journal, <<>>)) \/ isPreprint(args.resultJournal)
    \/ YearsDifferBy({1}) /\ args.titleSim > 80

\* C18: in structured mode the year sub-score is 100 on exact match; when the
\* expected and candidate years differ by 1-2 and either venue is a preprint
\* venue, or differ by exactly 1 with title similarity > 80, the year sub-score
\* lies in 75..85 and the issue produced is an informational version-difference
\* note rather than a hard 'Year Mismatch'; every other mismatch scores 0 with
\* a hard 'Year Mismatch' issue.
C18_YearLeniencyBand ==
    YearsCompared =>
        IF args.expected.year = args.resultYear
        THEN out[1].sim = 100 /\ out[1].issues = <<>>
        ELSE IF VersionDifference
        THEN /\ out[1].sim \in 75..85
             /\ Len(out[1].issues) = 1
             /\ ~ExactAt(out[1].issues[1], 1, Txt.IssueYearMismatch)
             /\ Includes(out[1].issues[1], Txt.IssuePossibleVersion)
                    \/ Includes(out[1].issues[1], Txt.IssueLikelyPreprint)
        ELSE /\ out[1].sim = 0
             /\ Len(out[1].issues) = 1
             /\ ExactAt(out[1].issues[1], 1, Txt.IssueYearMismatch)

\* One of the three formatters has returned a citation
Cited ==
    /\ fn \in {"formatAPA", "formatSemanticScholarAPA", "formatOpenAlexAPA"}
    /\ out # <<>>
    /\ out[1] # "TypeError"

\* The family names of the authors of the formatted candidate, in order
CitedFamilies ==
    IF fn = "formatAPA" THEN [k \in 1..Len(args.author) |-> Template(args.author[k].family)]
    ELSE [k \in 1..Len(args.authors) |-> LastPart(args.authors[k])]

\* Its journal, and its DOI link or URL: empty when it has none
CitedJournal ==
    IF fn = "formatAPA" THEN ItemJournal(args)
    ELSE IF fn = "formatSemanticScholarAPA" THEN args.venue ELSE args.journal

CitedLink ==
    IF fn = "formatAPA"
    THEN (IF Truthy(args.DOI) THEN Txt.DoiOrg \o args.DOI ELSE OrElse(args.URL, <<>>))
    ELSE IF fn = "formatSemanticScholarAPA"
    THEN (IF Truthy(args.DOI) THEN Txt.DoiOrg \o args.DOI ELSE <<>>)
    ELSE OrElse(args.doi, <<>>)

\* What follows the authors: (Year). Title. Journal. doi-or-url, a part the
\* candidate lacks left out, n.d. for no year
AfterAuthors ==
    <<" ", "(">> \o YearOrNd(args.year) \o <<")", ".", " ">>
    \o (IF fn = "formatAPA" THEN OrElse(args.title, Txt.Untitled) ELSE args.title) \o <<".">>
    \o (IF CitedJournal # <<>> THEN <<" ">> \o CitedJournal \o <<".">> ELSE <<>>)
    \o (IF CitedLink # <<>> THEN <<" ">> \o CitedLink ELSE <<>>)

\* C19: every APA citation string the core produces (formatAPA for CrossRef
\* candidates, formatSemanticScholarAPA, formatOpenAlexAPA) has the shape
\* 'Family, I. (Year). Title. Journal. doi-or-url' and, for a candidate with two
\* or more authors, joins the last two authors with '&'.
C19_ApaShape ==
    Cited =>
        \E n \in {Len(out[1]) - Len(AfterAuthors)}, last \in {Len(CitedFamilies)} :
            /\ n >= 0
            /\ SubSeq(out[1], n + 1, Len(out[1])) = AfterAuthors
            /\ last >= 1 => ExactAt(out[1], 1, CitedFamilies[1] \o Txt.CommaSpace)
            /\ last >= 2 =>
                  Includes(SubSeq(out[1], 1, n),
                           CitedFamilies[last - 1] \o Txt.CommaSpace)
                  /\ Includes(SubSeq(out[1], 1, n),
                              <<",", " ", "&", " ">> \o CitedFamilies[last] \o Txt.CommaSpace)

\* The confidence checkReference gives the free-text query q for the work
\* item, whose title score is titleSim
ConfidenceFor(q, item, titleSim) == ScoreItem(q, NoExpected, item, titleSim).confidence

\* The free-text query names a year and the accepted work is of another year
YearMismatched ==
    /\ FreeTextScored
    /\ crossRefResult[1].exists
    /\ ItemYear(bestItem[1]) # <<>>
    /\ YearsInQuery(query) # <<>>
    /\ ~InSeq(ItemYear(bestItem[1]), YearsInQuery(query))

\* The accepted work, had it the first year of the query
WithQueryYear == [bestItem[1] EXCEPT !.year = << ParseInt(YearsInQuery(query)[1]).val >>]

\* C21: in free-text mode a year mismatch between the query and the accepted
\* candidate lowers the overall score, by 5-10 for a version difference and by
\* 25 for any other mismatch: the confidence is lower than for the same query
\* and candidate with a matching year.
C21_YearMismatchLowersScore ==
    YearMismatched =>
        \E matching \in {ConfidenceFor(query, WithQueryYear,
                                       crossRefResult[1].titleMatchScore)} :
            /\ matching > 0 => crossRefResult[1].matchConfidence < matching
            /\ \E penalty \in (5..10) \cup {25} :
                  crossRefResult[1].matchConfidence = Max2(0, matching - Pts(penalty))

\* checkReference has returned for a CrossRef answer of at least one work
ReferenceChecked == fn = "checkReference" /\ out # <<>>

\* The combined score of the work item, with queryYearBonus for a year of the
\* query: 3 x title similarity, plus 40 for the expected year and 10 for a
\* year next to it, or the bonus for a year embedded in the query of a quick
\* check, plus a fifth of the journal similarity when a journal is expected
CombinedWith(queryYearBonus, item) ==
    3 * TitleSimOf(args.query, args.expected, ItemTitle(item))
    + (IF Truthy(args.expected.year) /\ ItemYear(item) # <<>>
       THEN (IF args.expected.year = ItemYear(item) THEN 40
             ELSE IF \E d \in {YearDiff(args.expected.year, ItemYear(item))} :
                        ~d.nan /\ d.val = 1
             THEN 10 ELSE 0)
       ELSE IF ~Truthy(args.expected.title) /\ ItemYear(item) # <<>>
               /\ InSeq(ItemYear(item), YearsInQuery(args.query))
       THEN queryYearBonus ELSE 0)
    + (IF Truthy(args.expected.journal) /\ ItemJournal(item) # <<>>
       THEN (2 * calculateSimilarity(args.expected.journal, ItemJournal(item)) + 5) \div 10
       ELSE 0)

\* What checkReference returns is what it returns for the earliest of the
\* works with the highest combined score alone
ReturnsBestWith(queryYearBonus) ==
    \E k \in DOMAIN args.items :
        /\ \A j \in DOMAIN args.items :
              CombinedWith(queryYearBonus, args.items[j])
                  <= CombinedWith(queryYearBonus, args.items[k])
        /\ \A j \in 1..(k - 1) :
              CombinedWith(queryYearBonus, args.items[j])
                  < CombinedWith(queryYearBonus, args.items[k])
        /\ out[1] = checkReference(args.query, args.expected,
                                   [outcome |-> "ok", items |-> << args.items[k] >>])

\* C22 as stated: checkReference returns, among the CrossRef items received,
\* the one with the highest combined score = 3 x title similarity, plus a year
\* bonus of +40 for an exact match against the expected year or against a year
\* embedded in the query and a smaller bonus for a one-year difference, plus a
\* small journal-similarity bonus when an expected journal is known; on equal
\* scores the earliest item in provider order is kept.
C22_BestCombinedScore == ReferenceChecked => ReturnsBestWith(40)

\* C22 amended: the same with a bonus of +40 for an exact match against the
\* expected year and of +30 for a year embedded in the query.
C22_BestCombinedScoreQueryYear30 == ReferenceChecked => ReturnsBestWith(30)

\* A quick check of "Deep Sea Nets 2020" has been answered with a work of 2020
\* whose title is near the query and, after it, the work Deep Sea Nets of no
\* year, which is returned: 3 x 100 against 3 x 89 + 30
C22_Witness ==
    /\ ReferenceChecked
    /\ Len(args.items) = 2
    /\ CombinedWith(30, args.items[1]) = 297
    /\ CombinedWith(30, args.items[2]) = 300
    /\ out[1].exists
    /\ out[1].title = args.items[2].title

\* The works of the answer that checkReference has accepted and scored
AcceptedItems ==
    { item \in {args.items[k] : k \in DOMAIN args.items} :
        /\ out[1].exists
        /\ out[1] = checkReference(args.query, args.expected,
                                   [outcome |-> "ok", items |-> << item >>]) }

\* checkReference has scored a work for an entry with a title and authors
AuthorsCompared ==
    ReferenceChecked /\ Truthy(args.expected.title) /\ Truthy(args.expected.authors)

\* The normalized family names of the work item of more than least letters
FamilyNames(item, least) ==
    SelectSeq([k \in 1..Len(item.author) |-> normalize(OrElse(item.author[k].family, <<>>))],
              LAMBDA name : Len(name) > least)

\* The names of the expected authors: the parts of at least 3 characters
\* between commas, ampersands and the word and
ExpectedNames ==
    SelectSeq([k \in 1..Len(SplitWith(decodeLatex(args.expected.authors), SepAuthorList)) |->
                  Trim(SplitWith(decodeLatex(args.expected.authors), SepAuthorList)[k])],
              LAMBDA e : Len(e) > 2)

\* The expected name e matches none of the families, either way, and no given
\* name of the work by its first letter
IsExtra(e, item, families) ==
    /\ \A k \in DOMAIN families :
          ~Includes(families[k], normalize(e)) /\ ~Includes(normalize(e), families[k])
    /\ \A k \in DOMAIN item.author :
          Truthy(item.author[k].given) => ~firstLetterMatches(e, item.author[k].given)

\* The author score and the issue of the result for the accepted work item,
\* the candidate family names being those of more than least letters
AuthorScoreBy(item, least) ==
    \E families \in {FamilyNames(item, least)} :
    \E matched \in {Cardinality({k \in DOMAIN families :
                         Includes(normalize(args.expected.authors), families[k])})},
       extra \in {SelectSeq(ExpectedNames, LAMBDA e : IsExtra(e, item, families))} :
    \E base \in 0..100 :
        /\ IF matched > 0
           THEN IsRoundedShare(base, Len(families) - matched, Len(families))
           ELSE base = calculateSimilarity(args.expected.authors, out[1].authors)
        /\ out[1].authorMatchScore = base - 20 * Len(extra)
        /\ \A k \in DOMAIN extra :
              \E n \in DOMAIN out[1].issues :
                  /\ ExactAt(out[1].issues[n], 1, Txt.IssueExtraAuthors)
                  /\ Includes(out[1].issues[n], extra[k])
        /\ extra = <<>> =>
              \A n \in DOMAIN out[1].issues :
                  ~ExactAt(out[1].issues[n], 1, Txt.IssueExtraAuthors)

\* C23 as stated: in structured mode with expected authors, the author
\* sub-score is 100 x matchedCount/totalCandidateAuthors, matchedCount the
\* number of candidate family names that are substrings of the normalized
\* expected-author string, falling back to whole-string similarity when none
\* match; it is then reduced by exactly 20 for each expected author name that
\* matches no candidate family name (substring either way) and no candidate
\* given name by first letter, and every such name is listed in an
\* 'Extra/Fake Authors' issue.
C23_AuthorScoreOverAllAuthors ==
    AuthorsCompared => \A item \in AcceptedItems : AuthorScoreBy(item, 0)

\* C23 amended: the same, the candidate family names counted and matched
\* being those of more than 2 characters.
C23_AuthorScoreOverLongFamilies ==
    AuthorsCompared => \A item \in AcceptedItems : AuthorScoreBy(item, 2)

\* The entry of Smith, J. has been checked against the work of Smith and Li:
\* one family name counts, it is matched, and the author score is 100
C23_Witness ==
    /\ AuthorsCompared
    /\ \E item \in AcceptedItems :
          /\ Len(item.author) = 2
          /\ Len(FamilyNames(item, 2)) = 1
          /\ out[1].authorMatchScore = 100

\* checkReference has scored a work for an entry with a title and a journal
JournalsCompared ==
    ReferenceChecked /\ Truthy(args.expected.title) /\ Truthy(args.expected.journal)

\* The journals of the entry and of the work item are less than 50 alike and
\* exactly one of them is a preprint venue
PreprintAgainstPublished(item) ==
    /\ calculateSimilarity(args.expected.journal, ItemJournal(item)) < 50
    /\ isPreprint(args.expected.journal) # isPreprint(ItemJournal(item))

\* The result treats the journals of the entry and of the work item as two
\* versions: journal score 70, a version-difference issue, no journal
\* mismatch issue and a confidence without a journal penalty
VersionDifferenceOnly(item) ==
    /\ out[1].journalMatchScore = 70
    /\ \E n \in DOMAIN out[1].issues : ExactAt(out[1].issues[n], 1, Txt.IssueVersionDiff)
    /\ \A n \in DOMAIN out[1].issues :
          /\ ~ExactAt(out[1].issues[n], 1, Txt.IssueJournalMismatch)
          /\ ~ExactAt(out[1].issues[n], 1, Txt.IssueJournalDiffers)
    /\ \E year \in {StructuredYear(args.expected, ItemYear(item), ItemJournal(item),
                                    out[1].titleMatchScore).sim} :
          out[1].matchConfidence =
              Max2(0, Min2(Pts(100),
                           out[1].titleMatchScore + out[1].authorMatchScore + 70 + year
                           - (IF out[1].titleMatchScore < 70 THEN Pts(20) ELSE 0)
                           - (IF Truthy(args.expected.authors) /\ out[1].authorMatchScore < 50
                              THEN Pts(20) ELSE 0)))

\* C24 as stated: in structured mode, whenever the journal similarity between
\* expected and candidate venue is below 50 and exactly one of the two venues
\* is a known preprint venue, the journal sub-score is raised to 70, an
\* informational version-difference issue is added, and no hard 'Journal
\* mismatch' issue or journal confidence penalty is applied.
C24_PreprintLeniency ==
    JournalsCompared =>
        \A item \in AcceptedItems :
            PreprintAgainstPublished(item) => VersionDifferenceOnly(item)

\* C24 amended: the same, whenever the title similarity is also above 70.
C24_PreprintLeniencyAboveTitle70 ==
    JournalsCompared =>
        \A item \in AcceptedItems :
            (PreprintAgainstPublished(item) /\ out[1].titleMatchScore > 70)
                => VersionDifferenceOnly(item)

\* An arXiv entry has been checked against the work of the same title in AI
\* Journal
C24_Witness ==
    /\ JournalsCompared
    /\ \E item \in AcceptedItems :
          /\ PreprintAgainstPublished(item)
          /\ isPreprint(args.expected.journal)
          /\ ItemJournal(item) # <<>>
          /\ out[1].titleMatchScore = 100
          /\ VersionDifferenceOnly(item)

\* checkReference has accepted and scored a work for a quick check: a call
\* without expected metadata
QuickCheckScored == ReferenceChecked /\ args.expected = NoExpected /\ out[1].exists

\* The overall score of free-text mode for the title, author and journal
\* scores, in quarter points
OverallOf(titleScore, authorScore, journalScore) ==
    (IF titleScore > 80
     THEN (IF authorScore >= 90 THEN 4 * titleScore
           ELSE 4 * titleScore - 2 * (100 - authorScore))
     ELSE 2 * (titleScore + authorScore))
    - (IF journalScore = 0 /\ titleScore > 60 THEN 4 * 15 ELSE 0)

C26_AboveThresholdItemFound ==
    ReferenceChecked =>
        ((\E k \in DOMAIN args.items :
              TitleSimOf(args.query, args.expected, ItemTitle(args.items[k])) >= 55)
            => out[1].exists)

\* checkWithFallback has returned after CrossRef found the reference
PrimaryReturned == Done /\ crossRefResult[1].exists

\* C27: whenever the primary CrossRef result exists, the result returned by
\* checkWithFallback keeps source 'CrossRef' and the primary's title, authors,
\* year, journal, url, doi, apa, bibtex, sub-scores and issues unchanged; the
\* only fields a secondary source can change are correctedApa,
\* correctedBibtex, fallbackSource and matchConfidence (by the +15 boost), and
\* fallbackSource is set if and only if correctedApa and correctedBibtex are
\* set from that same source.
C27_SecondaryOnlyAnnotates ==
    PrimaryReturned =>
        /\ result[1].source = "CrossRef"
        /\ KeepsPrimary(result[1], crossRefResult[1])
        /\ result[1].matchConfidence
              \in {crossRefResult[1].matchConfidence,
                   Min2(Pts(100), crossRefResult[1].matchConfidence + Pts(15))}
        /\ \/ Uncorrected(result[1])
                  /\ result[1].matchConfidence = crossRefResult[1].matchConfidence
           \/ ssResult # <<>>
                  /\ Corrected(result[1], formatSemanticScholarAPA(ssResult[1]),
                               generateSemanticScholarBibTeX(ssResult[1]), "SemanticScholar")
           \/ oaResult # <<>>
                  /\ Corrected(result[1], formatOpenAlexAPA(oaResult[1]),
                               generateOpenAlexBibTeX(oaResult[1]), "OpenAlex")

\* OpenAlex has corrected a CrossRef result and the confidence is raised
C27_Witness ==
    /\ PrimaryReturned
    /\ result[1].fallbackSource = "OpenAlex"
    /\ result[1].correctedApa = formatOpenAlexAPA(oaResult[1])
    /\ result[1].matchConfidence > crossRefResult[1].matchConfidence

\* checkWithFallback has returned for a quick check, a call without expected
\* metadata, after CrossRef found the reference
QuickCheckFound == PrimaryReturned /\ expected = NoExpected

\* C28: in free-text mode (no expected metadata), when the primary CrossRef
\* result exists, the result of checkWithFallback is independent of the
\* secondary sources: whatever Semantic Scholar and OpenAlex answer, failures
\* included, it is the result of checkReference, which the query and the
\* CrossRef response determine, even though both secondaries may be queried;
\* and the call never ends without a result.
C28_QuickCheckIgnoresSecondaries ==
    /\ QuickCheckFound => result[1] = crossRefResult[1]
    /\ (expected = NoExpected /\ crossRefResult # <<>> /\ crossRefResult[1].exists)
          => pc # "threw"

\* A quick check has returned the CrossRef result after both secondary sources
\* were queried and both found a candidate
C28_Witness ==
    /\ QuickCheckFound
    /\ requests = <<"CrossRef", "SemanticScholar", "OpenAlex">>
    /\ ssResult # <<>>
    /\ oaResult # <<>>
    /\ result[1] = crossRefResult[1]

\* C29: at most one loop of handleBatchCheck is running, and every card of
\* batchResults belongs to the batch started last
C29_SingleBatchLoop ==
    /\ Cardinality(DOMAIN loops) <= 1
    /\ \A k \in 1..Len(batchResultsState) : batchResultsState[k].batch = lastBatch

\* C30: loadingQuick is true exactly while a call of handleQuickCheck awaits
\* its check, and once none does the quick card shows the result of the call
\* started last
C30_QuickLoadingAndLatestResult ==
    /\ loadingQuick <=> quickChecks # {}
    /\ (quickChecks = {} /\ quickResult # <<>>) => quickResult = <<lastQuick>>

====
